---- MODULE Spec2Model ----
(***************************************************************************)
(* KolkoKosta: the catalog ingest driver (src/db/ingest.ts, kept in        *)
(* src/src/lib/db-queries.ts lines 719-1086) and the search route's        *)
(* data-source resolution (src/src/app/api/history/route.ts 189-272).      *)
(*                                                                         *)
(* Abstractions.  A date is a small integer whose order is the lexical     *)
(* order of the YYYY-MM-DD strings.  A row of a table is <<date, chain,    *)
(* k>>: the k-th record of the chain's CSV member, stamped with chain and  *)
(* date as the row mappings do; a table is a bag of rows (the              *)
(* auto-increment id makes every insert a new row, so equal rows count).   *)
(* Every await of the code is one step; a step that awaits I/O has one     *)
(* outcome per result the environment can give (response, failure).        *)
(* HTTP requests, the statements on stores, products and prices, and the   *)
(* catalog reads of the search route may fail.  The statements ingestDate  *)
(* runs on ingestion_log (the select of the check, the two upserts) are    *)
(* taken to succeed: a rejection of the select or of the upsert in the     *)
(* catch would reject ingestDate with nothing recorded, and is not a       *)
(* behaviour of this model.                                                *)
(***************************************************************************)
EXTENDS Integers, Sequences, FiniteSets, TLC

\* ------------------------------------------------------------------ bounds
NumProcs == 2      \* ingest invocations that may exist at once
NumDates == 3      \* calendar days the catalog and the upstream know
NumIngestDates == 1 \* of these, the days an ingest is run for
MaxRows  == 3      \* rows of the largest CSV member
MaxRuns  == 2      \* ingest invocations in one behaviour
BatchSize == 2     \* rows per INSERT statement (500 in the code, scaled to MaxRows)
CONCURRENCY == 5   \* chain tasks per Promise.all batch
NumWideIngest == 7  \* chains of the wide archive the ingest reads
NumCallers == 2     \* concurrent callers of the cached directory lookup
MaxSize == 2        \* sizes the archive takes upstream
MaxCalls == 3       \* lookups in one behaviour
NumHistDates == 3   \* dates a history request may range over

Procs == 1..NumProcs
Dates == 1..NumDates
IngestDates == 1..NumIngestDates
Files == <<"stores", "products", "prices">>
NoEntry == -1

\* ---------------------------------------------------------- the upstream
\* The archive of a date: its chains in central-directory order, and for
\* each chain and member the number of CSV records (NoEntry: no such member).
\* The archive of WideDate has NumWideIngest chains, more than one batch of
\* the chain loop: the first publishes a products.csv of one record, the
\* others a products.csv with a header row only.
WideDate == 0
WideNames == <<"w1", "w2", "w3", "w4", "w5", "w6", "w7", "w8", "w9">>
WideChains == [i \in 1..NumWideIngest |-> WideNames[i]]

ChainList(d) ==
  IF d = WideDate THEN WideChains
  ELSE IF d = 1 THEN <<"a", "b">> ELSE <<"a">>

Entry(d, c, f) ==
  IF d = WideDate THEN
       IF f # "products" THEN NoEntry ELSE IF c = "w1" THEN 1 ELSE 0
  ELSE IF d = 1 /\ c = "a" THEN
       CASE f = "stores" -> MaxRows [] f = "products" -> 1 [] OTHER -> NoEntry
  ELSE IF d = 1 /\ c = "b" THEN
       CASE f = "stores" -> NoEntry [] f = "products" -> 0 [] OTHER -> 1
  ELSE CASE f = "stores" -> 1 [] f = "products" -> 1 [] OTHER -> 1

RowChains == {"a", "b"}
AllChains == RowChains \cup {WideChains[i] : i \in 1..NumWideIngest}
\* FrameDate: a second date with an archive of one chain, one record a member
FrameDate == 2
Rows ==
  (IngestDates \X RowChains \X (1..MaxRows))
     \cup {<<WideDate, "w1", 1>>, <<FrameDate, "a", 1>>}

\* ------------------------------------------------------------------ state
VARIABLES
  tables,     \* [stores, products, prices]: each a bag of rows, Rows -> Nat
  log,        \* ingestion_log: a set of rows
  now,        \* the clock new Date() reads
  pc,         \* per ingest invocation: the await it is suspended at
  date,       \* ingestDate's argument date
  force,      \* ingestDate's argument force
  tasks,      \* per invocation and chain: the chain task's position
  batchAt,    \* the loop variable i of the chain loop
  totals,     \* totalStores, totalProducts, totalPrices
  err,        \* the error caught by the outer catch ("none": none)
  result,     \* how the invocation ended: "noop", "ok", "thrown"
  http,       \* whether the invocation has issued an HTTP request
  runs,       \* invocations started so far
  \* observers: they record, and no action of the program reads them
  pre,        \* the date's table rows and log rows when the invocation started
  prev,       \* how the invocation before this one (same slot) ended
  seen,       \* what a reader of the date's rows saw while the invocation ran
  \* the upstream list and one request to the search route
  archives,   \* GET /v0/list: the dates that have an archive, most recent first
  spc,        \* the await the search request is suspended at
  sdate,      \* the request's date parameter
  dbHasDate,  \* the route's dbHasDate
  target,     \* the date handed to searchProductsFromDB
  actualDate, \* the route's actualDate
  resp,       \* the response: [status, source, date]
  shttp,      \* HTTP requests the search request has issued
  rejected,   \* the catalog reads of the request that rejected
  \* one call of a search function (catalog path or in-memory path)
  data,       \* the stores, products and prices of the date searched
  query,      \* the argument query
  city,       \* the argument city (empty: no city filter)
  via,        \* the function called: "db" searchProductsFromDB, "mem" searchProducts
  found,      \* the list the call returned
  qpc,        \* the call's position
  \* one remote search (the route's fallback and searchProductsEfficient)
  arch,       \* the upstream archive of the date: size, chains, members, matches
  zipEntriesCache, \* the cached directory of the archive's URL: its size, or NotCached
  rpc,        \* the await the remote search is suspended at
  ri,         \* the loop variable i of the phase's loop
  rtask,      \* per chain: the position of its task in the running batch
  allProducts,    \* the chains whose products.csv rows have been loaded
  matchingChainList, \* the chains with a matching product, in order
  sent,       \* HTTP requests issued and members asked for, by kind
  began,      \* the member fetches begun: <<chain, file, phase>>
  faults,     \* requests that have failed
  rout,       \* how the remote search ended: "zip", "error"
  \* callers of getCachedZipEntries for one archive URL, in one process
  fileSize,   \* the archive's size upstream (content-length)
  cpc,        \* per caller: the await its lookup is suspended at
  csize,      \* per caller: the argument fileSize of its lookup
  dirFetched, \* per size: central-directory responses received for it
  calls,      \* lookups started so far
  \* one request to the history route
  hdates,     \* the dates with a 'success' log row (catalog) or an archive (upstream)
  hdata,      \* per date: its stores, products and prices
  hargs,      \* barcode, name, city, chain, days
  hfail,      \* the dates whose fetchDayData rejects
  hvia,       \* the path taken: "db" or "zip"
  hout,       \* the history list returned
  hpc,        \* the request's position
  hhttp,      \* HTTP requests the request has issued
  \* one call of getZipEntries
  dsize,      \* its argument fileSize
  dvia,       \* the copy called: "route" (cijene.ts) or "ingest" (ingest script)
  dreq,       \* the byte range of its first fetchRange
  dpc,        \* the call's position
  \* one run of the ZIP reader: getZipEntries, then fetchZipFile of one entry
  zarch,      \* the upstream file
  zpick,      \* the entry fetchZipFile is called with
  zreqs,      \* the ranges fetchRange has asked for, in order
  zresp,      \* the responses to them
  zbufs,      \* the ArrayBuffers fetchRange returned
  zpc,        \* the await the reader is suspended at
  zout,       \* what the reader returned or threw
  \* one CSV member decoded and mapped to rows
  ptext,      \* the text handed to parseCSVText
  prows,      \* the records parseCSVText returned
  pmapped,    \* the price rows mapped from the records
  ppc         \* the step reached

obs == <<pre, prev, seen>>
search == <<archives, spc, sdate, dbHasDate, target, actualDate, resp, shttp,
            rejected>>
lookup == <<data, query, city, via, found, qpc>>
remote == <<arch, zipEntriesCache, rpc, ri, rtask, allProducts, matchingChainList,
            sent, began, faults, rout>>
callers == <<fileSize, cpc, csize, dirFetched, calls>>
history == <<hdates, hdata, hargs, hfail, hvia, hout, hpc, hhttp>>
discovery == <<dsize, dvia, dreq, dpc>>
reader == <<zarch, zpick, zreqs, zresp, zbufs, zpc, zout>>
parsing == <<ptext, prows, pmapped, ppc>>
others == <<lookup, remote, callers, history, discovery, reader, parsing>>
vars == <<tables, log, now, pc, date, force, tasks, batchAt, totals, err,
          result, http, runs, obs, search, others>>

EmptyTable == [r \in Rows |-> 0]
ZeroTotals == [f \in {"stores", "products", "prices"} |-> 0]
NoTask == [st |-> "none", file |-> 0, off |-> 0]
NoTasks == [c \in AllChains |-> NoTask]
None == <<>>

IngestInit ==
  /\ tables = [f \in {"stores", "products", "prices"} |-> EmptyTable]
  /\ now = 0
  /\ pc = [p \in Procs |-> "idle"]
  /\ date = [p \in Procs |-> 1]
  /\ force = [p \in Procs |-> FALSE]
  /\ tasks = [p \in Procs |-> NoTasks]
  /\ batchAt = [p \in Procs |-> 0]
  /\ totals = [p \in Procs |-> ZeroTotals]
  /\ err = [p \in Procs |-> "none"]
  /\ result = [p \in Procs |-> "none"]
  /\ http = [p \in Procs |-> FALSE]
  /\ runs = 0
  /\ pre = [p \in Procs |-> None]
  /\ prev = [p \in Procs |-> None]
  /\ seen = [p \in Procs |-> None]

Undefined == 0
NoResp == [status |-> 0, source |-> "none", date |-> Undefined]

SearchIdle ==
  /\ spc = "idle"
  /\ sdate = Undefined
  /\ dbHasDate = FALSE
  /\ target = Undefined
  /\ actualDate = Undefined
  /\ resp = NoResp
  /\ shttp = 0
  /\ rejected = {}

Max(S) == CHOOSE x \in S : \A y \in S : y <= x

\* The upstream lists its archives sorted descending by date.
RECURSIVE Descending(_)
Descending(S) == IF S = {} THEN <<>> ELSE <<Max(S)>> \o Descending(S \ {Max(S)})

NoData == [stores |-> <<>>, products |-> <<>>, prices |-> <<>>]

LookupIdle ==
  /\ data = NoData
  /\ query = <<>>
  /\ city = <<>>
  /\ via = "none"
  /\ found = <<>>
  /\ qpc = "idle"

NotCached == 0
NoArchive == [size |-> 0, n |-> 0, files |-> <<>>, match |-> {}]
NoneSent == [list |-> 0, head |-> 0, tail |-> 0, dir |-> 0, range |-> 0,
             products |-> 0, stores |-> 0, prices |-> 0]

RemoteIdle ==
  /\ arch = NoArchive
  /\ zipEntriesCache = NotCached
  /\ rpc = "idle"
  /\ ri = 0
  /\ rtask = <<>>
  /\ allProducts = {}
  /\ matchingChainList = <<>>
  /\ sent = NoneSent
  /\ began = {}
  /\ faults = 0
  /\ rout = "none"

Callers == 1..NumCallers
Sizes == 1..MaxSize

CallersIdle ==
  /\ fileSize = 1
  /\ cpc = [k \in Callers |-> "idle"]
  /\ csize = [k \in Callers |-> 0]
  /\ dirFetched = [s \in Sizes |-> 0]
  /\ calls = 0

HistoryIdle ==
  /\ hdates = {}
  /\ hdata = <<>>
  /\ hargs = <<>>
  /\ hfail = {}
  /\ hvia = "none"
  /\ hout = <<>>
  /\ hpc = "idle"
  /\ hhttp = 0

NoRange == <<>>

DiscoveryIdle ==
  /\ dsize = 1
  /\ dvia = "none"
  /\ dreq = NoRange
  /\ dpc = "idle"

NoFile == [size |-> 0, eocd |-> FALSE, cdOffset |-> 0, cdSize |-> 0,
           members |-> <<>>]
NoOutcome == [kind |-> "none", name |-> "", buf |-> <<>>]

ReaderIdle ==
  /\ zarch = NoFile
  /\ zpick = 0
  /\ zreqs = <<>>
  /\ zresp = <<>>
  /\ zbufs = <<>>
  /\ zpc = "idle"
  /\ zout = NoOutcome

ParsingIdle ==
  /\ ptext = <<>>
  /\ prows = <<>>
  /\ pmapped = <<>>
  /\ ppc = "idle"

OthersIdle ==
  /\ LookupIdle /\ RemoteIdle /\ CallersIdle /\ HistoryIdle /\ DiscoveryIdle
  /\ ReaderIdle /\ ParsingIdle

Init ==
  /\ IngestInit
  /\ log = {}
  /\ archives = Descending(IngestDates)
  /\ SearchIdle
  /\ OthersIdle

\* ----------------------------------------------------------- chain tasks
Min(a, b) == IF a < b THEN a ELSE b

Finished(t) == t.st \in {"ok", "ferr", "ierr"}

\* The task of chain c from member number i on: a member without a
\* central-directory entry is skipped without an await.
RECURSIVE TaskFrom(_, _, _)
TaskFrom(d, c, i) ==
  IF i > 3 THEN [st |-> "ok", file |-> 0, off |-> 0]
  ELSE IF Entry(d, c, Files[i]) = NoEntry THEN TaskFrom(d, c, i + 1)
  ELSE [st |-> "fetch", file |-> i, off |-> 0]

\* (a variant that takes every remaining chain at once)
BatchOfUnbounded(d, i) == {ChainList(d)[j] : j \in (i + 1)..Len(ChainList(d))}

BatchOf(d, i) ==
  {ChainList(d)[j] : j \in (i + 1)..Min(i + CONCURRENCY, Len(ChainList(d)))}

StartBatch(d, i, ts) ==
  [c \in AllChains |-> IF c \in BatchOf(d, i) THEN TaskFrom(d, c, 1) ELSE ts[c]]

\* The chain loop after a task has moved: when every task of the batch has
\* settled, Promise.all resolves and the loop starts the next batch.
RECURSIVE Settle(_, _, _)
Settle(d, i, ts) ==
  IF i >= Len(ChainList(d)) THEN [over |-> TRUE, i |-> i, ts |-> ts]
  ELSE IF \A c \in BatchOf(d, i) : Finished(ts[c])
       THEN IF i + CONCURRENCY >= Len(ChainList(d))
            THEN [over |-> TRUE, i |-> i + CONCURRENCY, ts |-> ts]
            ELSE Settle(d, i + CONCURRENCY, StartBatch(d, i + CONCURRENCY, ts))
       ELSE [over |-> FALSE, i |-> i, ts |-> ts]

BeginChains(d) ==
  IF Len(ChainList(d)) = 0 THEN [over |-> TRUE, i |-> 0, ts |-> NoTasks]
  ELSE Settle(d, 0, StartBatch(d, 0, NoTasks))

\* ------------------------------------------------------------ the tables
\* (mutant of DeleteDate: the delete statement has no where clause)
DeleteEveryDate(t, d) == [r \in Rows |-> 0]

\* (mutant of DeleteDate: the delete statement matches no row)
DeleteNothing(t, d) == t

DeleteDate(t, d) == [r \in Rows |-> IF r[1] = d THEN 0 ELSE t[r]]

\* db.insert(table).values(batch): rows lo..hi of the member, one statement
InsertRows(t, d, c, lo, hi) ==
  [r \in Rows |-> IF r[1] = d /\ r[2] = c /\ r[3] >= lo /\ r[3] <= hi
                  THEN t[r] + 1 ELSE t[r]]

LogRowsOf(d) == {r \in log : r.date = d}

\* (mutant of Upsert: a plain insert, without the conflict clause)
InsertOnly(l, v, s) == l \cup {v}

\* insert(ingestionLog).values(v).onConflictDoUpdate({target: date, set: s})
Upsert(l, v, s) ==
  IF \E r \in l : r.date = v.date
  THEN {IF r.date = v.date
        THEN [k \in DOMAIN r |-> IF k \in DOMAIN s THEN s[k] ELSE r[k]]
        ELSE r : r \in l}
  ELSE l \cup {v}

\* What a query "where date = d" returns from the three tables.
DateRows(d) ==
  [f \in {"stores", "products", "prices"} |->
     [r \in {x \in Rows : x[1] = d} |-> tables[f][r]]]

\* ------------------------------------------------------------ ingestDate
FileOf(t) == Files[t.file]
StatusOf(d) == {r.status : r \in LogRowsOf(d)}

Fail(p, e) ==
  /\ err' = [err EXCEPT ![p] = e]
  /\ pc' = [pc EXCEPT ![p] = "logError"]

\* ingest.ts main entry point: ingestDate(targetDate, force).  With force the
\* log is not read and the HEAD request goes out at once.
Start(p, d, f) ==
  /\ pc[p] \in {"idle", "done"}
  /\ runs < MaxRuns
  /\ runs' = runs + 1
  /\ date' = [date EXCEPT ![p] = d]
  /\ force' = [force EXCEPT ![p] = f]
  /\ pc' = [pc EXCEPT ![p] = IF f THEN "head" ELSE "check"]
  /\ http' = [http EXCEPT ![p] = f]
  /\ tasks' = [tasks EXCEPT ![p] = NoTasks]
  /\ batchAt' = [batchAt EXCEPT ![p] = 0]
  /\ totals' = [totals EXCEPT ![p] = ZeroTotals]
  /\ err' = [err EXCEPT ![p] = "none"]
  /\ result' = [result EXCEPT ![p] = "none"]
  /\ pre' = [pre EXCEPT ![p] = [rows |-> DateRows(d), log |-> LogRowsOf(d)]]
  /\ prev' = [prev EXCEPT ![p] =
       IF pc[p] = "done"
       THEN [date |-> date[p], force |-> force[p], result |-> result[p],
             tasks |-> tasks[p], rows |-> DateRows(date[p]),
             log |-> LogRowsOf(date[p])]
       ELSE None]
  /\ seen' = [seen EXCEPT ![p] = None]
  /\ UNCHANGED <<tables, log, now, search, others>>

\* (mutant of Check: any log row of the date short-circuits, whatever its status)
CheckAnyRow(p) ==
  /\ pc[p] = "check"
  /\ IF LogRowsOf(date[p]) # {}
     THEN /\ pc' = [pc EXCEPT ![p] = "done"]
          /\ result' = [result EXCEPT ![p] = "noop"]
          /\ UNCHANGED http
     ELSE /\ pc' = [pc EXCEPT ![p] = "head"]
          /\ http' = [http EXCEPT ![p] = TRUE]
          /\ UNCHANGED result
  /\ UNCHANGED <<tables, log, now, date, force, tasks, batchAt, totals, err, runs, obs, search, others>>

\* if (!force) { existing = select ... where date; success => return }
Check(p) ==
  /\ pc[p] = "check"
  /\ IF "success" \in StatusOf(date[p])
     THEN /\ pc' = [pc EXCEPT ![p] = "done"]
          /\ result' = [result EXCEPT ![p] = "noop"]
          /\ UNCHANGED http
     ELSE /\ pc' = [pc EXCEPT ![p] = "head"]
          /\ http' = [http EXCEPT ![p] = TRUE]
          /\ UNCHANGED result
  /\ UNCHANGED <<tables, log, now, date, force, tasks, batchAt, totals, err, runs, obs, search, others>>

\* fetch(url, HEAD): not ok, or no content-length, throws
HeadProbe(p) ==
  /\ pc[p] = "head"
  /\ \E ok \in BOOLEAN :
       IF ok THEN pc' = [pc EXCEPT ![p] = "dir"] /\ UNCHANGED err
             ELSE Fail(p, "head")
  /\ UNCHANGED <<tables, log, now, date, force, tasks, batchAt, totals, result, http, runs, obs, search, others>>

\* The chain loop begins: the first batch's tasks run to their first await.
EnterChains(p) ==
  LET s == BeginChains(date[p]) IN
  /\ tasks' = [tasks EXCEPT ![p] = s.ts]
  /\ batchAt' = [batchAt EXCEPT ![p] = s.i]
  /\ pc' = [pc EXCEPT ![p] = IF s.over THEN "logSuccess" ELSE "chains"]

\* (mutant of Dir: with force the date's rows are deleted before the directory
\* is read, so a failed directory fetch comes after the delete)
DirDeleteFirst(p) ==
  /\ pc[p] = "dir"
  /\ \E ok \in BOOLEAN :
       IF ok
       THEN /\ IF force[p]
               THEN pc' = [pc EXCEPT ![p] = "delStores"] /\ UNCHANGED <<tasks, batchAt>>
               ELSE EnterChains(p)
            /\ UNCHANGED <<err, tables>>
       ELSE /\ Fail(p, "dir")
            /\ tables' = IF force[p]
                         THEN [f \in {"stores", "products", "prices"} |->
                                 DeleteDate(tables[f], date[p])]
                         ELSE tables
            /\ UNCHANGED <<tasks, batchAt>>
  /\ UNCHANGED <<log, now, date, force, totals, result, http, runs, obs, search, others>>

\* getZipEntries (tail window, EOCD scan, central directory): either request
\* failing, or no EOCD signature, throws.  Without force nothing is deleted.
Dir(p) ==
  /\ pc[p] = "dir"
  /\ \E ok \in BOOLEAN :
       IF ok
       THEN /\ IF force[p]
               THEN pc' = [pc EXCEPT ![p] = "delStores"] /\ UNCHANGED <<tasks, batchAt>>
               ELSE EnterChains(p)
            /\ UNCHANGED err
       ELSE Fail(p, "dir") /\ UNCHANGED <<tasks, batchAt>>
  /\ UNCHANGED <<tables, log, now, date, force, totals, result, http, runs, obs, search, others>>

\* await db.delete(stores).where(eq(stores.date, date))
DelStores(p) ==
  /\ pc[p] = "delStores"
  /\ \E ok \in BOOLEAN :
       IF ok
       THEN /\ tables' = [tables EXCEPT !.stores = DeleteDate(@, date[p])]
            /\ pc' = [pc EXCEPT ![p] = "delProducts"]
            /\ UNCHANGED err
       ELSE Fail(p, "db") /\ UNCHANGED tables
  /\ UNCHANGED <<log, now, date, force, tasks, batchAt, totals, result, http, runs, obs, search, others>>

DelProducts(p) ==
  /\ pc[p] = "delProducts"
  /\ \E ok \in BOOLEAN :
       IF ok
       THEN /\ tables' = [tables EXCEPT !.products = DeleteDate(@, date[p])]
            /\ pc' = [pc EXCEPT ![p] = "delPrices"]
            /\ UNCHANGED err
       ELSE Fail(p, "db") /\ UNCHANGED tables
  /\ UNCHANGED <<log, now, date, force, tasks, batchAt, totals, result, http, runs, obs, search, others>>

DelPrices(p) ==
  /\ pc[p] = "delPrices"
  /\ \E ok \in BOOLEAN :
       IF ok
       THEN /\ tables' = [tables EXCEPT !.prices = DeleteDate(@, date[p])]
            /\ EnterChains(p)
            /\ UNCHANGED err
       ELSE Fail(p, "db") /\ UNCHANGED <<tables, tasks, batchAt>>
  /\ UNCHANGED <<log, now, date, force, totals, result, http, runs, obs, search, others>>

\* A chain task has moved to t: the loop goes on (Promise.all, next batch).
TaskMoves(p, c, t) ==
  LET s == Settle(date[p], batchAt[p], [tasks[p] EXCEPT ![c] = t]) IN
  /\ tasks' = [tasks EXCEPT ![p] = s.ts]
  /\ batchAt' = [batchAt EXCEPT ![p] = s.i]
  /\ pc' = [pc EXCEPT ![p] = IF s.over THEN "logSuccess" ELSE "chains"]

\* text = await fetchZipFile(url, entry); rows = parseCSVText(text).  A failed
\* range request or an unsupported compression method throws into the
\* task's own catch.  No rows: no insert, no count.
FetchMember(p, c) ==
  LET t == tasks[p][c]
      n == Entry(date[p], c, FileOf(t)) IN
  /\ pc[p] = "chains"
  /\ t.st = "fetch"
  /\ \E ok \in BOOLEAN :
       TaskMoves(p, c,
         IF ~ok THEN [st |-> "ferr", file |-> t.file, off |-> 0]
         ELSE IF n = 0 THEN TaskFrom(date[p], c, t.file + 1)
         ELSE [st |-> "insert", file |-> t.file, off |-> 0])
  /\ UNCHANGED <<tables, log, now, date, force, totals, err, result, http, runs, obs, search, others>>

\* batchInsert: one INSERT of rows off+1 .. off+BatchSize; after the last
\* batch the member's row count is added to the total.
InsertBatch(p, c) ==
  LET t == tasks[p][c]
      f == FileOf(t)
      n == Entry(date[p], c, f)
      hi == Min(t.off + BatchSize, n) IN
  /\ pc[p] = "chains"
  /\ t.st = "insert"
  /\ \E ok \in BOOLEAN :
       IF ok
       THEN /\ tables' = [tables EXCEPT ![f] = InsertRows(@, date[p], c, t.off + 1, hi)]
            /\ IF hi >= n
               THEN /\ totals' = [totals EXCEPT ![p][f] = @ + n]
                    /\ TaskMoves(p, c, TaskFrom(date[p], c, t.file + 1))
               ELSE /\ UNCHANGED totals
                    /\ TaskMoves(p, c, [t EXCEPT !.off = hi])
       ELSE /\ TaskMoves(p, c, [st |-> "ierr", file |-> t.file, off |-> t.off])
            /\ UNCHANGED <<tables, totals>>
  /\ UNCHANGED <<log, now, date, force, err, result, http, runs, obs, search, others>>

\* insert(ingestionLog).values({... status: "success"}).onConflictDoUpdate(...)
LogSuccess(p) ==
  /\ pc[p] = "logSuccess"
  /\ log' = Upsert(log,
       [date |-> date[p], ingestedAt |-> now,
        storeCount |-> totals[p].stores, productCount |-> totals[p].products,
        priceCount |-> totals[p].prices, status |-> "success",
        errorMessage |-> "null"],
       [ingestedAt |-> now,
        storeCount |-> totals[p].stores, productCount |-> totals[p].products,
        priceCount |-> totals[p].prices, status |-> "success",
        errorMessage |-> "null"])
  /\ now' = now + 1
  /\ pc' = [pc EXCEPT ![p] = "done"]
  /\ result' = [result EXCEPT ![p] = "ok"]
  /\ UNCHANGED <<tables, date, force, tasks, batchAt, totals, err, http, runs, obs, search, others>>

\* catch (err): insert(ingestionLog).values({... status: "error"})
\* .onConflictDoUpdate({set: {ingestedAt, status, errorMessage}}); throw err
LogError(p) ==
  /\ pc[p] = "logError"
  /\ log' = Upsert(log,
       [date |-> date[p], ingestedAt |-> now,
        storeCount |-> 0, productCount |-> 0, priceCount |-> 0,
        status |-> "error", errorMessage |-> err[p]],
       [ingestedAt |-> now, status |-> "error", errorMessage |-> err[p]])
  /\ now' = now + 1
  /\ pc' = [pc EXCEPT ![p] = "done"]
  /\ result' = [result EXCEPT ![p] = "thrown"]
  /\ UNCHANGED <<tables, date, force, tasks, batchAt, totals, err, http, runs, obs, search, others>>

\* A reader (the query layer) selects the rows of the date an invocation is
\* working on, all three tables at one instant.
Read(p) ==
  /\ pc[p] \notin {"idle", "done"}
  /\ seen[p] = None
  /\ seen' = [seen EXCEPT ![p] = <<DateRows(date[p])>>]
  /\ UNCHANGED <<tables, log, now, pc, date, force, tasks, batchAt, totals,
                 err, result, http, runs, pre, prev, search, others>>

IngestStep(p) ==
  \/ Check(p) \/ HeadProbe(p) \/ Dir(p)
  \/ DelStores(p) \/ DelProducts(p) \/ DelPrices(p)
  \/ \E c \in AllChains : FetchMember(p, c) \/ InsertBatch(p, c)
  \/ LogSuccess(p) \/ LogError(p)

\* Every invocation of the script is a process of its own (a slot of Procs);
\* nothing orders two of them.
Next ==
  \E p \in Procs :
    \/ \E d \in IngestDates, f \in BOOLEAN : pc[p] = "idle" /\ Start(p, d, f)
    \/ IngestStep(p)

Spec == Init /\ [][Next]_vars

\* One invocation at a time: each starts after the one before it has ended
\* (slot 1 is used again).
NextSeq ==
  \/ \E d \in IngestDates, f \in BOOLEAN : Start(1, d, f)
  \/ IngestStep(1)

SpecSeq == Init /\ [][NextSeq]_vars

\* The same, while a reader queries the catalog.
NextRead ==
  \/ \E d \in IngestDates, f \in BOOLEAN : Start(1, d, f)
  \/ IngestStep(1)
  \/ Read(1)

SpecRead == Init /\ [][NextRead]_vars

\* The script's process is killed (SIGINT, crash) while it is suspended at an
\* await: nothing more of ingestDate runs, the catch included.
Interrupt(p) ==
  /\ pc[p] \notin {"idle", "done"}
  /\ pc' = [pc EXCEPT ![p] = "done"]
  /\ result' = [result EXCEPT ![p] = "killed"]
  /\ UNCHANGED <<tables, log, now, date, force, tasks, batchAt, totals, err,
                 http, runs, obs, search, others>>

\* One invocation at a time, each of which may be killed.
NextKill ==
  \/ \E d \in IngestDates, f \in BOOLEAN : Start(1, d, f)
  \/ IngestStep(1)
  \/ Interrupt(1)

SpecKill == Init /\ [][NextKill]_vars

\* One invocation on the archive of WideDate.
NextWide ==
  \/ \E f \in BOOLEAN : pc[1] = "idle" /\ Start(1, WideDate, f)
  \/ IngestStep(1)

SpecWide == Init /\ [][NextWide]_vars

\* Two invocations at the same time, one per date.
NextFrame ==
  \/ \E f \in BOOLEAN : pc[1] = "idle" /\ Start(1, 1, f)
  \/ \E f \in BOOLEAN : pc[2] = "idle" /\ Start(2, FrameDate, f)
  \/ IngestStep(1)
  \/ IngestStep(2)

SpecFrame == Init /\ [][NextFrame]_vars

\* ------------------------------------------------- the search route (GET)
ingest == <<tables, log, now, pc, date, force, tasks, batchAt, totals, err,
            result, http, runs, obs>>

Range(q) == {q[i] : i \in DOMAIN q}

\* isDateIngested(date): a row of the date with status 'success'
IsDateIngested(d) == \E r \in log : r.date = d /\ r.status = "success"

\* getLatestIngestedDate(): order by date desc limit 1 over the success rows
GetLatestIngestedDate ==
  IF \E r \in log : r.status = "success"
  THEN Max({r.date : r \in {x \in log : x.status = "success"}})
  ELSE Undefined

Respond(st, src, d) ==
  /\ resp' = [status |-> st, source |-> src, date |-> d]
  /\ spc' = "done"

\* (mutant of SearchGet: the archive list is fetched before the catalog is
\* asked, as the route without a catalog did)
SearchGetListFirst(d, blank) ==
  /\ spc = "idle"
  /\ sdate' = d
  /\ actualDate' = d
  /\ IF blank THEN Respond(200, "none", d) /\ UNCHANGED shttp
              ELSE spc' = "isDateIngested" /\ shttp' = shttp + 1 /\ UNCHANGED resp
  /\ UNCHANGED <<archives, dbHasDate, target, rejected, ingest, others>>

\* GET: a blank q is answered at once; else the route awaits isDateIngested.
SearchGet(d, blank) ==
  /\ spc = "idle"
  /\ sdate' = d
  /\ actualDate' = d
  /\ IF blank THEN Respond(200, "none", d)
              ELSE spc' = "isDateIngested" /\ UNCHANGED resp
  /\ UNCHANGED <<archives, dbHasDate, target, shttp, rejected, ingest, others>>

\* dbHasDate = await isDateIngested(actualDate).catch(() => false)
SearchIsDateIngested ==
  /\ spc = "isDateIngested"
  /\ \E ok \in BOOLEAN :
       LET has == ok /\ IsDateIngested(actualDate) IN
       /\ dbHasDate' = has
       /\ rejected' = IF ok THEN rejected ELSE rejected \cup {"isDateIngested"}
       /\ IF has THEN spc' = "searchProductsFromDB" /\ target' = actualDate
                 ELSE spc' = "getLatestIngestedDate" /\ UNCHANGED target
  /\ UNCHANGED <<archives, sdate, actualDate, resp, shttp, ingest, others>>

\* latestIngestedDate = await getLatestIngestedDate().catch(() => null); when
\* null the route goes on to fetchArchiveList (GET /v0/list).
SearchLatest ==
  /\ spc = "getLatestIngestedDate"
  /\ \E ok \in BOOLEAN :
       LET latest == IF ok THEN GetLatestIngestedDate ELSE Undefined IN
       /\ rejected' = IF ok THEN rejected ELSE rejected \cup {"getLatestIngestedDate"}
       /\ IF latest # Undefined
          THEN spc' = "searchProductsFromDB" /\ target' = latest /\ UNCHANGED shttp
          ELSE spc' = "fetchArchiveList" /\ shttp' = shttp + 1 /\ UNCHANGED target
  /\ UNCHANGED <<archives, sdate, dbHasDate, actualDate, resp, ingest, others>>

\* products = await searchProductsFromDB(target, query, city): database reads
\* only; a rejected read reaches the route's catch (status 500).
SearchFromDB ==
  /\ spc = "searchProductsFromDB"
  /\ \E ok \in BOOLEAN :
       IF ok THEN Respond(200, "db", target) /\ UNCHANGED rejected
             ELSE /\ Respond(500, "none", sdate)
                  /\ rejected' = rejected \cup {"searchProductsFromDB"}
  /\ UNCHANGED <<archives, sdate, dbHasDate, target, actualDate, shttp, ingest, others>>

\* try { archives = await fetchArchiveList(); if the date is not listed,
\* actualDate = availableDates[0] } catch { }; then searchProductsEfficient
\* sends its HEAD request.
SearchList ==
  /\ spc = "fetchArchiveList"
  /\ \E ok \in BOOLEAN :
       actualDate' = IF ok /\ actualDate \notin Range(archives)
                     THEN IF archives = <<>> THEN Undefined ELSE archives[1]
                     ELSE actualDate
  /\ spc' = "searchProductsEfficient"
  /\ shttp' = shttp + 1
  /\ UNCHANGED <<archives, sdate, dbHasDate, target, resp, rejected, ingest, others>>

\* products = await searchProductsEfficient(actualDate, query, city): getZipInfo
\* throws when the archive does not exist or a directory request fails.
SearchRemote ==
  /\ spc = "searchProductsEfficient"
  /\ \E ok \in BOOLEAN :
       IF ok /\ actualDate \in Range(archives)
       THEN Respond(200, "zip", actualDate)
       ELSE Respond(500, "none", sdate)
  /\ UNCHANGED <<archives, sdate, dbHasDate, target, actualDate, shttp, rejected, ingest, others>>

\* The catalog a search may meet: per date no row, a success row or an error row.
LogRow(d, st) ==
  [date |-> d, ingestedAt |-> 0, storeCount |-> 0, productCount |-> 0,
   priceCount |-> 0, status |-> st,
   errorMessage |-> IF st = "error" THEN "head" ELSE "null"]

SearchInit ==
  /\ IngestInit
  /\ \E st \in [Dates -> {"none", "success", "error"}] :
       log = {LogRow(d, st[d]) : d \in {x \in Dates : st[x] # "none"}}
  /\ \E S \in SUBSET Dates : archives = Descending(S)
  /\ SearchIdle
  /\ OthersIdle

SearchNext ==
  \/ \E d \in Dates, blank \in BOOLEAN : SearchGet(d, blank)
  \/ SearchIsDateIngested
  \/ SearchLatest
  \/ SearchFromDB
  \/ SearchList
  \/ SearchRemote

SpecSearch == SearchInit /\ [][SearchNext]_vars

\* The awaits of the code complete: every request and every database
\* statement is answered or fails, so a suspended invocation goes on.
FairSeq == SpecSeq /\ WF_vars(IngestStep(1))

\* ------------------------------------ the search functions (one date's rows)
\* A string is a sequence of characters; a row is a record of strings (and a
\* number for the price).  The rows are those of one date.
MaxGroups == 50       \* .slice(0, 50)
ProductLimit == 500   \* .limit(500)

LowerChar(c) ==
  CASE c = "Z" -> "z" [] c = "G" -> "g" [] c = "K" -> "k" [] OTHER -> c

ToLowerCase(s) == [i \in DOMAIN s |-> LowerChar(s[i])]

RECURSIVE TrimStart(_)
TrimStart(s) == IF s # <<>> /\ Head(s) = " " THEN TrimStart(Tail(s)) ELSE s

RECURSIVE TrimEnd(_)
TrimEnd(s) ==
  IF s # <<>> /\ s[Len(s)] = " " THEN TrimEnd(SubSeq(s, 1, Len(s) - 1)) ELSE s

Trim(s) == TrimEnd(TrimStart(s))

\* String.prototype.includes
Includes(s, sub) ==
  \E i \in 0..(Len(s) - Len(sub)) : SubSeq(s, i + 1, i + Len(sub)) = sub

\* SQLite's LIKE: % matches any run of characters, _ any one character, and
\* letters match without regard to case.
RECURSIVE Like(_, _)
Like(pat, s) ==
  IF pat = <<>> THEN s = <<>>
  ELSE IF Head(pat) = "%"
       THEN Like(Tail(pat), s) \/ (s # <<>> /\ Like(pat, Tail(s)))
       ELSE /\ s # <<>>
            /\ (Head(pat) = "_" \/ LowerChar(Head(pat)) = LowerChar(Head(s)))
            /\ Like(Tail(pat), Tail(s))

Contains(x) == <<"%">> \o x \o <<"%">>

\* `${chain}:${id}`
Key(c, id) == c \o <<":">> \o id

Limit(s, n) == SubSeq(s, 1, Min(Len(s), n))

NormalizedQuery(q) == Trim(ToLowerCase(q))

\* product.barcode || `${product.chain}:${product.product_id}`
GroupKey(p) == IF p.barcode # <<>> THEN p.barcode ELSE Key(p.chain, p.product_id)

Unknown == <<"N", "e", "p", "o", "z", "n", "a", "t">>

\* The loop over the matching products: att[i] is the list of prices the loop
\* pushes for product i; a product whose key has no group yet opens one.
RECURSIVE Merge(_, _, _, _)
Merge(ps, att, i, gs) ==
  IF i > Len(ps) THEN gs
  ELSE LET k == GroupKey(ps[i])
           at == {j \in DOMAIN gs : gs[j].key = k}
       IN Merge(ps, att, i + 1,
            IF at = {}
            THEN Append(gs, [key |-> k,
                             product |-> [ps[i] EXCEPT !.name =
                                            IF @ = <<>> THEN Unknown ELSE @],
                             prices |-> att[i]])
            ELSE LET j == CHOOSE x \in at : TRUE
                 IN [gs EXCEPT ![j].prices = @ \o att[i]])

\* Array.prototype.sort((a, b) => b.prices.length - a.prices.length): stable
RECURSIVE InsertByPrices(_, _)
InsertByPrices(sorted, g) ==
  IF sorted = <<>> THEN <<g>>
  ELSE IF Len(Head(sorted).prices) >= Len(g.prices)
       THEN <<Head(sorted)>> \o InsertByPrices(Tail(sorted), g)
       ELSE <<g>> \o sorted

RECURSIVE SortByPrices(_)
SortByPrices(gs) ==
  IF gs = <<>> THEN <<>>
  ELSE InsertByPrices(SortByPrices(SubSeq(gs, 1, Len(gs) - 1)), gs[Len(gs)])

\* (mutant of Ranked: the list is filtered and cut but not sorted)
RankedUnsorted(gs) ==
  Limit(SelectSeq(gs, LAMBDA g : Len(g.prices) > 0), MaxGroups)

\* [...productsByBarcode.values()].filter(...).sort(...).slice(0, 50)
Ranked(gs) ==
  Limit(SortByPrices(SelectSeq(gs, LAMBDA g : Len(g.prices) > 0)), MaxGroups)

\* p.name.toLowerCase().includes(q) || p.brand.toLowerCase().includes(q)
\* || p.barcode === q
MatchesInMemory(x, nq) ==
  \/ Includes(ToLowerCase(x.name), nq)
  \/ Includes(ToLowerCase(x.brand), nq)
  \/ x.barcode = nq

\* or(like(name, `%${q}%`), like(brand, `%${q}%`), eq(barcode, q))
MatchesInDB(x, nq) ==
  \/ Like(Contains(nq), x.name)
  \/ Like(Contains(nq), x.brand)
  \/ x.barcode = nq

\* data.stores.find((s) => s.chain === chain && s.store_id === id): the first
FindStore(ss, c, id) ==
  LET at == {i \in DOMAIN ss : ss[i].chain = c /\ ss[i].store_id = id}
  IN IF at = {} THEN <<>> ELSE <<ss[CHOOSE i \in at : \A j \in at : i <= j]>>

\* searchProducts(data, query, city) of cijene.ts
searchProducts(d, q, c) ==
  LET nq == NormalizedQuery(q)
      cityStores == IF c # <<>>
                    THEN SelectSeq(d.stores, LAMBDA s :
                           Includes(ToLowerCase(s.city), ToLowerCase(c)))
                    ELSE d.stores
      cityStoreIds == {Key(cityStores[i].chain, cityStores[i].store_id) :
                         i \in DOMAIN cityStores}
      matchingProducts ==
        SelectSeq(d.products, LAMBDA x : MatchesInMemory(x, nq))
      productPrices(x) ==
        SelectSeq(d.prices, LAMBDA e :
          /\ e.chain = x.chain
          /\ e.product_id = x.product_id
          /\ (c # <<>> => Key(e.chain, e.store_id) \in cityStoreIds))
      pushed(x) ==
        LET withStore == SelectSeq(productPrices(x), LAMBDA e :
                           FindStore(d.stores, x.chain, e.store_id) # <<>>)
        IN [i \in DOMAIN withStore |->
              [chain |-> x.chain,
               store |-> FindStore(d.stores, x.chain, withStore[i].store_id)[1],
               price |-> withStore[i].price]]
  IN IF nq = <<>> THEN <<>>
     ELSE Ranked(Merge(matchingProducts,
                       [i \in DOMAIN matchingProducts |-> pushed(matchingProducts[i])],
                       1, <<>>))

\* storeMap.get(key): the map keeps the last row set under a key
StoreMapGet(storeRows, k) ==
  LET at == {i \in DOMAIN storeRows :
               Key(storeRows[i].chain, storeRows[i].store_id) = k}
  IN IF at = {} THEN <<>> ELSE <<storeRows[CHOOSE i \in at : \A j \in at : j <= i]>>

\* searchProductsFromDB(date, query, city) of db-queries.ts, on the date's rows
searchProductsFromDB(d, q, c) ==
  LET nq == NormalizedQuery(q)
      matchingProducts ==
        Limit(SelectSeq(d.products, LAMBDA x : MatchesInDB(x, nq)), ProductLimit)
      matchingChains == {matchingProducts[i].chain : i \in DOMAIN matchingProducts}
      storeRows ==
        SelectSeq(d.stores, LAMBDA s :
          /\ s.chain \in matchingChains
          /\ (c # <<>> => Like(Contains(c), s.city)))
      cityStoreIds == {Key(storeRows[i].chain, storeRows[i].store_id) :
                         i \in DOMAIN storeRows}
      productIds == {matchingProducts[i].product_id : i \in DOMAIN matchingProducts}
      priceRows ==
        SelectSeq(d.prices, LAMBDA e :
          e.chain \in matchingChains /\ e.product_id \in productIds)
      priceMapGet(k) ==
        SelectSeq(priceRows, LAMBDA e : Key(e.chain, e.product_id) = k)
      pushed(x) ==
        LET kept == SelectSeq(priceMapGet(Key(x.chain, x.product_id)), LAMBDA e :
                      /\ (c # <<>> => Key(e.chain, e.store_id) \in cityStoreIds)
                      /\ StoreMapGet(storeRows, Key(e.chain, e.store_id)) # <<>>)
        IN [i \in DOMAIN kept |->
              [chain |-> x.chain,
               store |-> StoreMapGet(storeRows, Key(kept[i].chain, kept[i].store_id))[1],
               price |-> kept[i].price]]
  IN IF nq = <<>> \/ matchingProducts = <<>> THEN <<>>
     ELSE Ranked(Merge(matchingProducts,
                       [i \in DOMAIN matchingProducts |-> pushed(matchingProducts[i])],
                       1, <<>>))

\* The rows a search may meet, and its arguments.
MaxStores == 2     \* rows of stores
MaxProducts == 2   \* rows of products

StorePool ==
  {[chain |-> <<"a">>, store_id |-> <<"1">>, city |-> <<"Z", "g">>],
   [chain |-> <<"a">>, store_id |-> <<"1">>, city |-> <<"s", "t">>],
   [chain |-> <<"b">>, store_id |-> <<"1">>, city |-> <<"z", "g">>]}

ProductPool ==
  {[chain |-> <<"a">>, product_id |-> <<"1">>, barcode |-> <<>>,
    name |-> <<"K">>, brand |-> <<>>],
   [chain |-> <<"b">>, product_id |-> <<"9">>, barcode |-> <<"a", ":", "1">>,
    name |-> <<>>, brand |-> <<"k">>],
   [chain |-> <<"b">>, product_id |-> <<"1">>, barcode |-> <<"7">>,
    name |-> <<"k">>, brand |-> <<>>],
   [chain |-> <<"a">>, product_id |-> <<"2">>, barcode |-> <<"7">>,
    name |-> <<"m">>, brand |-> <<>>]}

PriceList ==
  <<[chain |-> <<"a">>, store_id |-> <<"1">>, product_id |-> <<"1">>, price |-> 5],
    [chain |-> <<"b">>, store_id |-> <<"1">>, product_id |-> <<"9">>, price |-> 3],
    [chain |-> <<"a">>, store_id |-> <<"2">>, product_id |-> <<"1">>, price |-> 4],
    [chain |-> <<"b">>, store_id |-> <<"1">>, product_id |-> <<"1">>, price |-> 2]>>

Queries == {<<"K", " ">>, <<"K">>, <<"7">>, <<" ">>}
Cities == {<<>>, <<"z", "G">>, <<"_">>}

\* The lists of at most n different members of S.
Arrangements(S, n) ==
  {s \in UNION {[1..k -> S] : k \in 0..n} :
     \A i \in DOMAIN s, j \in DOMAIN s : i # j => s[i] # s[j]}

LookupInit ==
  /\ IngestInit
  /\ log = {}
  /\ archives = Descending(IngestDates)
  /\ SearchIdle
  /\ \E ss \in Arrangements(StorePool, MaxStores),
        ps \in Arrangements(ProductPool, MaxProducts),
        es \in SUBSET Range(PriceList) :
       data = [stores |-> ss, products |-> ps,
               prices |-> SelectSeq(PriceList, LAMBDA e : e \in es)]
  /\ query \in Queries
  /\ city \in Cities
  /\ via \in {"db", "mem"}
  /\ CallersIdle
  /\ HistoryIdle
  /\ DiscoveryIdle
  /\ ReaderIdle
  /\ ParsingIdle
  /\ found = <<>>
  /\ qpc = "called"
  /\ RemoteIdle

CallSearchProducts ==
  /\ qpc = "called" /\ via = "mem"
  /\ found' = searchProducts(data, query, city)
  /\ qpc' = "returned"
  /\ UNCHANGED <<data, query, city, via, ingest, search, remote, callers, history, discovery, reader, parsing>>

CallSearchProductsFromDB ==
  /\ qpc = "called" /\ via = "db"
  /\ found' = searchProductsFromDB(data, query, city)
  /\ qpc' = "returned"
  /\ UNCHANGED <<data, query, city, via, ingest, search, remote, callers, history, discovery, reader, parsing>>

LookupNext == CallSearchProducts \/ CallSearchProductsFromDB

SpecLookup == LookupInit /\ [][LookupNext]_vars

\* Searches whose result has several groups: up to MaxRanked products of the
\* pool, or BulkSize products of chain a, each with one price in store 1.
MaxRanked == 3     \* rows of products
BulkSize == 51     \* one group more than the result list may hold

Unary(n) == [j \in 1..n |-> "1"]

BulkData ==
  [stores |-> <<[chain |-> <<"a">>, store_id |-> <<"1">>, city |-> <<"Z", "g">>]>>,
   products |-> [i \in 1..BulkSize |->
                   [chain |-> <<"a">>, product_id |-> Unary(i), barcode |-> <<>>,
                    name |-> <<"K">>, brand |-> <<>>]],
   prices |-> [i \in 1..BulkSize |->
                 [chain |-> <<"a">>, store_id |-> <<"1">>,
                  product_id |-> Unary(i), price |-> 5]]]

RankInit ==
  /\ IngestInit
  /\ log = {}
  /\ archives = Descending(IngestDates)
  /\ SearchIdle
  /\ \/ \E ss \in Arrangements(StorePool, MaxStores),
           ps \in Arrangements(ProductPool, MaxRanked),
           es \in SUBSET Range(PriceList) :
          data = [stores |-> ss, products |-> ps,
                  prices |-> SelectSeq(PriceList, LAMBDA e : e \in es)]
     \/ data = BulkData
  /\ query \in {<<"K">>, <<"7">>}
  /\ city \in {<<>>, <<"z", "G">>}
  /\ via \in {"db", "mem"}
  /\ CallersIdle
  /\ HistoryIdle
  /\ DiscoveryIdle
  /\ ReaderIdle
  /\ ParsingIdle
  /\ found = <<>>
  /\ qpc = "called"
  /\ RemoteIdle

SpecRank == RankInit /\ [][LookupNext]_vars

\* The two remote searches on one archive.  data holds the archive's rows in
\* the order of its chains; a chain task pushes its rows when its fetch
\* completes, so rows pushed inside tasks are in completion order.
ArchiveChains == <<<<"a">>, <<"b">>>>

CompletionOrders == {ArchiveChains, <<ArchiveChains[2], ArchiveChains[1]>>}

ChainRows(rows, c) == SelectSeq(rows, LAMBDA r : r.chain = c)

RECURSIVE InOrder(_, _)
InOrder(rows, order) ==
  IF order = <<>> THEN <<>>
  ELSE ChainRows(rows, Head(order)) \o InOrder(rows, Tail(order))

\* fetchDayData(date): stores, products and prices are pushed inside the tasks
fetchDayData(d, so, po, eo) ==
  [stores |-> InOrder(d.stores, so),
   products |-> InOrder(d.products, po),
   prices |-> InOrder(d.prices, eo)]

\* searchProductsEfficient(date, query, city): products are pushed after
\* Promise.all, in the order of the chains; stores and prices of the chains
\* with a matching product are pushed inside the tasks
searchProductsEfficient(d, q, c, so, eo) ==
  LET nq == NormalizedQuery(q)
      productsOfAll == InOrder(d.products, ArchiveChains)
      matchingProducts == SelectSeq(productsOfAll, LAMBDA x : MatchesInMemory(x, nq))
      matchingChains == {matchingProducts[i].chain : i \in DOMAIN matchingProducts}
      fetched(order) == SelectSeq(order, LAMBDA ch : ch \in matchingChains)
  IN IF nq = <<>> \/ matchingProducts = <<>> THEN <<>>
     ELSE searchProducts([stores |-> InOrder(d.stores, fetched(so)),
                          products |-> productsOfAll,
                          prices |-> InOrder(d.prices, fetched(eo))], q, c)

PhasesInit ==
  /\ IngestInit
  /\ log = {}
  /\ archives = Descending(IngestDates)
  /\ SearchIdle
  /\ \E ss \in Arrangements(StorePool, MaxStores),
        ps \in Arrangements(ProductPool, MaxProducts),
        es \in SUBSET Range(PriceList) :
       /\ ss = InOrder(ss, ArchiveChains)
       /\ ps = InOrder(ps, ArchiveChains)
       /\ data = [stores |-> ss, products |-> ps,
                  prices |-> InOrder(SelectSeq(PriceList, LAMBDA e : e \in es),
                                     ArchiveChains)]
  /\ query \in {<<"K">>, <<"7">>}
  /\ city \in {<<>>, <<"z", "G">>}
  /\ via = "none"
  /\ CallersIdle
  /\ HistoryIdle
  /\ DiscoveryIdle
  /\ ReaderIdle
  /\ ParsingIdle
  /\ found = <<>>
  /\ qpc = "called"
  /\ RemoteIdle

CallSearchProductsEfficient ==
  /\ qpc = "called"
  /\ \E so \in CompletionOrders, eo \in CompletionOrders :
       found' = searchProductsEfficient(data, query, city, so, eo)
  /\ via' = "efficient"
  /\ qpc' = "returned"
  /\ UNCHANGED <<data, query, city, ingest, search, remote, callers, history, discovery, reader, parsing>>

CallFetchDayDataAndSearch ==
  /\ qpc = "called"
  /\ \E so \in CompletionOrders, po \in CompletionOrders, eo \in CompletionOrders :
       found' = searchProducts(fetchDayData(data, so, po, eo), query, city)
  /\ via' = "full"
  /\ qpc' = "returned"
  /\ UNCHANGED <<data, query, city, ingest, search, remote, callers, history, discovery, reader, parsing>>

PhasesNext == CallSearchProductsEfficient \/ CallFetchDayDataAndSearch

SpecPhases == PhasesInit /\ [][PhasesNext]_vars

\* ------------------------------- the remote search (searchProductsEfficient)
\* Chains are numbered in the order of the central directory.  A member fetch
\* (fetchZipFile) is two awaited range requests, the local header and then the
\* payload; every request is counted in sent when it is issued.
SearchConcurrency == 8   \* const CONCURRENCY = 8
NumWideChains == 9       \* chains of the largest archive
MaxFaults == 1           \* requests that may fail in one behaviour
Lidl == 1
Spar == 2

ChainSeq(n) == [i \in 1..n |-> i]

OkTask == [st |-> "ok", file |-> "none"]
ErrTask == [st |-> "err", file |-> "none"]
IdleTask == [st |-> "none", file |-> "none"]
Settled(t) == t.st \in {"ok", "err"}

\* The locals of the running search, as one record.
Locals ==
  [phase |-> rpc, i |-> ri, task |-> rtask, allProducts |-> allProducts,
   matching |-> matchingChainList, sent |-> sent, began |-> began]

\* The tasks of a batch start: want[c] is the member chain c's task asks for
\* first ("none": its task has nothing to fetch and returns).
StartTasks(st, want) ==
  LET asked == {c \in DOMAIN want : want[c] # "none"}
      n(f) == Cardinality({c \in asked : want[c] = f})
  IN [st EXCEPT
        !.task = [c \in DOMAIN st.task |->
                    IF c \in DOMAIN want
                    THEN IF want[c] = "none" THEN OkTask
                         ELSE [st |-> "header", file |-> want[c]]
                    ELSE st.task[c]],
        !.sent = [@ EXCEPT !.products = @ + n("products"),
                           !.stores = @ + n("stores"),
                           !.prices = @ + n("prices"),
                           !.range = @ + Cardinality(asked)],
        !.began = @ \cup {<<c, want[c], st.phase>> : c \in asked}]

\* (a variant that takes every chain at once)
BatchAUnbounded(i) == (i + 1)..arch.n

\* batch = availableChains.slice(i, i + CONCURRENCY); productsEntry or return []
BatchA(i) == (i + 1)..Min(i + SearchConcurrency, arch.n)

StartA(st) ==
  StartTasks(st, [c \in BatchA(st.i) |->
                    IF "products" \in arch.files[c] THEN "products" ELSE "none"])

\* batch = matchingChainList.slice(i, i + CONCURRENCY); stores first, then prices
BatchB(st) ==
  {st.matching[j] : j \in (st.i + 1)..Min(st.i + SearchConcurrency, Len(st.matching))}

FirstOfB(c) ==
  IF "stores" \in arch.files[c] THEN "stores"
  ELSE IF "prices" \in arch.files[c] THEN "prices" ELSE "none"

StartB(st) == StartTasks(st, [c \in BatchB(st) |-> FirstOfB(c)])

\* (a variant that takes every chain whose products were fetched)
FetchedChainsOf(st) ==
  SelectSeq(ChainSeq(arch.n), LAMBDA c : c \in st.allProducts)

\* matchingChains: the chains of the fetched products that match the query,
\* in the order of allProducts
MatchingChainsOf(st) ==
  SelectSeq(ChainSeq(arch.n), LAMBDA c : c \in st.allProducts /\ c \in arch.match)

\* The loops of the two phases after a task has moved: a batch whose tasks
\* have all settled resolves its Promise.all; after the last batch of phase A
\* the matching chains are taken, and with none the search returns.
RECURSIVE RAdvance(_)
RAdvance(st) ==
  IF st.phase = "A" THEN
    IF st.i >= arch.n THEN
      LET mc == MatchingChainsOf(st)
      IN IF mc = <<>> THEN [st EXCEPT !.phase = "done"]
         ELSE RAdvance(StartB([st EXCEPT !.phase = "B", !.i = 0, !.matching = mc]))
    ELSE IF \A c \in BatchA(st.i) : Settled(st.task[c])
    THEN LET nxt == [st EXCEPT !.i = @ + SearchConcurrency]
         IN RAdvance(IF nxt.i < arch.n THEN StartA(nxt) ELSE nxt)
    ELSE st
  ELSE IF st.phase = "B" THEN
    IF st.i >= Len(st.matching) THEN [st EXCEPT !.phase = "done"]
    ELSE IF \A c \in BatchB(st) : Settled(st.task[c])
    THEN LET nxt == [st EXCEPT !.i = @ + SearchConcurrency]
         IN RAdvance(IF nxt.i < Len(nxt.matching) THEN StartB(nxt) ELSE nxt)
    ELSE st
  ELSE st

\* getZipInfo has returned: the first loop begins.
EnterA(st) ==
  LET a == [st EXCEPT !.phase = "A", !.i = 0,
                      !.task = [c \in 1..arch.n |-> IdleTask]]
  IN RAdvance(IF arch.n > 0 THEN StartA(a) ELSE a)

Install(st) ==
  /\ rpc' = st.phase
  /\ ri' = st.i
  /\ rtask' = st.task
  /\ allProducts' = st.allProducts
  /\ matchingChainList' = st.matching
  /\ sent' = st.sent
  /\ began' = st.began
  /\ rout' = IF st.phase = "done" THEN "zip" ELSE rout

\* A request fails: the environment may do so MaxFaults times while a small
\* archive is read; the wide archive is read without failures.
MayFail == faults < MaxFaults /\ arch.n <= 2

Thrown ==
  /\ rpc' = "done"
  /\ rout' = "error"
  /\ faults' = faults + 1

\* The archives a search may meet: the two chains lidl and spar with their
\* three members each, the same with lidl's products.csv missing, and a wide
\* archive of NumWideChains chains that publish no stores.csv.
ThreeCsv == {"products", "stores", "prices"}

SmallArchives ==
  {[size |-> 1, n |-> 2, files |-> fs, match |-> mt] :
     fs \in {<<ThreeCsv, ThreeCsv>>, <<{"stores", "prices"}, ThreeCsv>>},
     mt \in SUBSET {Lidl, Spar}}

WideArchive ==
  [size |-> 1, n |-> NumWideChains,
   files |-> [c \in 1..NumWideChains |-> {"products", "prices"}],
   match |-> 1..NumWideChains]

\* zipEntriesCache holds the size its entry was read at: none, the archive's
\* size, or an older size.
StaleSize == 2

RemoteInit ==
  /\ IngestInit
  /\ log = {}
  /\ archives = {}
  /\ SearchIdle
  /\ LookupIdle
  /\ CallersIdle
  /\ HistoryIdle
  /\ DiscoveryIdle
  /\ ReaderIdle
  /\ ParsingIdle
  /\ \/ arch \in SmallArchives /\ zipEntriesCache \in {NotCached, 1, StaleSize}
     \/ arch = WideArchive /\ zipEntriesCache = 1
  /\ rpc = "idle"
  /\ ri = 0
  /\ rtask = <<>>
  /\ allProducts = {}
  /\ matchingChainList = <<>>
  /\ sent = NoneSent
  /\ began = {}
  /\ faults = 0
  /\ rout = "none"

RemoteRest == UNCHANGED <<arch, ingest, search, lookup, callers, history, discovery, reader, parsing>>

\* The route asks for the archive list (fetchArchiveList).
RStart ==
  /\ rpc = "idle"
  /\ rpc' = "list"
  /\ sent' = [sent EXCEPT !.list = @ + 1]
  /\ UNCHANGED <<zipEntriesCache, ri, rtask, allProducts, matchingChainList, began, faults, rout>>
  /\ RemoteRest

\* The list answers or fails (the route's inner catch continues either way);
\* searchProductsEfficient begins and getZipInfo sends its HEAD.
RList ==
  /\ rpc = "list"
  /\ \E ok \in BOOLEAN :
       /\ ~ok => MayFail
       /\ faults' = IF ok THEN faults ELSE faults + 1
  /\ rpc' = "head"
  /\ sent' = [sent EXCEPT !.head = @ + 1]
  /\ UNCHANGED <<zipEntriesCache, ri, rtask, allProducts, matchingChainList, began, rout>>
  /\ RemoteRest

\* The HEAD answers: getCachedZipEntries returns the cached entries when the
\* size matches and otherwise getZipEntries asks for the tail.
RHead ==
  /\ rpc = "head"
  /\ \/ /\ zipEntriesCache = arch.size
        /\ Install(EnterA(Locals))
        /\ UNCHANGED <<zipEntriesCache, faults>>
     \/ /\ zipEntriesCache # arch.size
        /\ rpc' = "tail"
        /\ sent' = [sent EXCEPT !.tail = @ + 1]
        /\ UNCHANGED <<zipEntriesCache, ri, rtask, allProducts, matchingChainList, began, faults, rout>>
     \/ /\ MayFail
        /\ Thrown
        /\ UNCHANGED <<zipEntriesCache, ri, rtask, allProducts, matchingChainList, sent, began>>
  /\ RemoteRest

\* The tail answers: the end-of-directory record is found and the central
\* directory is asked for, or the request fails / no record is found.
RTail ==
  /\ rpc = "tail"
  /\ \/ /\ rpc' = "dir"
        /\ sent' = [sent EXCEPT !.dir = @ + 1]
        /\ UNCHANGED <<faults, rout>>
     \/ /\ MayFail
        /\ Thrown
        /\ UNCHANGED sent
  /\ UNCHANGED <<zipEntriesCache, ri, rtask, allProducts, matchingChainList, began>>
  /\ RemoteRest

\* The central directory answers: the entries are cached under the size and
\* the first loop begins.
RDir ==
  /\ rpc = "dir"
  /\ \/ /\ zipEntriesCache' = arch.size
        /\ Install(EnterA(Locals))
        /\ UNCHANGED faults
     \/ /\ MayFail
        /\ Thrown
        /\ UNCHANGED <<zipEntriesCache, ri, rtask, allProducts, matchingChainList, sent, began>>
  /\ RemoteRest

\* The task's catch: the chain contributes nothing more.
TaskFailed(c) ==
  /\ MayFail
  /\ faults' = faults + 1
  /\ Install(RAdvance([Locals EXCEPT !.task[c] = ErrTask]))

\* The local header of chain c's member answers: the payload is asked for.
RHeader(c) ==
  /\ rpc \in {"A", "B"}
  /\ c \in DOMAIN rtask
  /\ rtask[c].st = "header"
  /\ \/ /\ rtask' = [rtask EXCEPT ![c].st = "payload"]
        /\ sent' = [sent EXCEPT !.range = @ + 1]
        /\ UNCHANGED <<rpc, ri, allProducts, matchingChainList, began, faults, rout>>
     \/ TaskFailed(c)
  /\ UNCHANGED zipEntriesCache
  /\ RemoteRest

\* (a variant whose second-loop task ends after its first member)
AfterPayloadOneMember(c) ==
  IF rpc = "A"
  THEN [Locals EXCEPT !.task[c] = OkTask, !.allProducts = @ \cup {c}]
  ELSE [Locals EXCEPT !.task[c] = OkTask]

\* The payload of chain c's member answers.  In the first loop the task returns
\* the chain's products; in the second the task goes on from stores.csv to
\* prices.csv when the chain has one, and is over after prices.csv.
AfterPayload(c) ==
  IF rpc = "A"
  THEN [Locals EXCEPT !.task[c] = OkTask, !.allProducts = @ \cup {c}]
  ELSE IF rtask[c].file = "stores" /\ "prices" \in arch.files[c]
  THEN StartTasks(Locals, [x \in {c} |-> "prices"])
  ELSE [Locals EXCEPT !.task[c] = OkTask]

RPayload(c) ==
  /\ rpc \in {"A", "B"}
  /\ c \in DOMAIN rtask
  /\ rtask[c].st = "payload"
  /\ \/ /\ Install(RAdvance(AfterPayload(c)))
        /\ UNCHANGED faults
     \/ TaskFailed(c)
  /\ UNCHANGED zipEntriesCache
  /\ RemoteRest

RemoteNext ==
  \/ RStart
  \/ RList
  \/ RHead
  \/ RTail
  \/ RDir
  \/ \E c \in 1..NumWideChains : RHeader(c)
  \/ \E c \in 1..NumWideChains : RPayload(c)

SpecRemote == RemoteInit /\ [][RemoteNext]_vars

\* --------------------------------- the directory cache (getCachedZipEntries)
\* Callers of one process look the directory of one URL up: requests of the
\* search and history routes that run at the same time.  Each has read the
\* size with its HEAD request just before.
remoteRun == <<arch, rpc, ri, rtask, allProducts, matchingChainList, sent, began,
               faults, rout>>

CacheRest == UNCHANGED <<ingest, search, lookup, remoteRun, history, discovery, reader, parsing>>

\* cached = zipEntriesCache.get(url); a hit returns, a miss calls getZipEntries,
\* which asks for the tail
CachedLookup(k) ==
  /\ cpc[k] \in {"idle", "done"}
  /\ calls < MaxCalls
  /\ calls' = calls + 1
  /\ csize' = [csize EXCEPT ![k] = fileSize]
  /\ cpc' = [cpc EXCEPT ![k] = IF zipEntriesCache = fileSize THEN "done" ELSE "tail"]
  /\ UNCHANGED <<zipEntriesCache, fileSize, dirFetched>>
  /\ CacheRest

\* the tail answers: the directory is asked for, or getZipEntries throws
CallerTail(k) ==
  /\ cpc[k] = "tail"
  /\ \E ok \in BOOLEAN : cpc' = [cpc EXCEPT ![k] = IF ok THEN "dir" ELSE "done"]
  /\ UNCHANGED <<zipEntriesCache, fileSize, csize, dirFetched, calls>>
  /\ CacheRest

\* the directory answers: zipEntriesCache.set(url, {entries, size: fileSize})
CallerDir(k) ==
  /\ cpc[k] = "dir"
  /\ \/ /\ dirFetched' = [dirFetched EXCEPT ![csize[k]] = @ + 1]
        /\ zipEntriesCache' = csize[k]
     \/ UNCHANGED <<dirFetched, zipEntriesCache>>
  /\ cpc' = [cpc EXCEPT ![k] = "done"]
  /\ UNCHANGED <<fileSize, csize, calls>>
  /\ CacheRest

\* upstream publishes the archive again, with another size
Republish ==
  /\ fileSize < MaxSize
  /\ fileSize' = fileSize + 1
  /\ UNCHANGED <<zipEntriesCache, cpc, csize, dirFetched, calls>>
  /\ CacheRest

CacheNext ==
  \/ \E k \in Callers : CachedLookup(k)
  \/ \E k \in Callers : CallerTail(k)
  \/ \E k \in Callers : CallerDir(k)
  \/ Republish

SpecCache == Init /\ [][CacheNext]_vars

\* ------------------------------------------------ the history route (GET)
HistProductLimit == 200   \* .limit(200)
HistDates == 1..NumHistDates

\* Math.min(...p)
MinOf(p) == CHOOSE x \in Range(p) : \A y \in Range(p) : x <= y

RECURSIVE SumSeq(_)
SumSeq(p) == IF p = <<>> THEN 0 ELSE Head(p) + SumSeq(Tail(p))

\* p.reduce((a, b) => a + b, 0) / p.length, kept as the fraction num / den
MeanOf(p) == [num |-> SumSeq(p), den |-> Len(p)]

RECURSIVE Flatten(_)
Flatten(ss) == IF ss = <<>> THEN <<>> ELSE Head(ss) \o Flatten(Tail(ss))

\* The keys of chainPrices, in the order the Map got them.
RECURSIVE ChainsOf(_)
ChainsOf(es) ==
  IF es = <<>> THEN <<>>
  ELSE LET r == ChainsOf(SubSeq(es, 1, Len(es) - 1))
           c == es[Len(es)].chain
       IN IF c \in Range(r) THEN r ELSE Append(r, c)

PricesOf(es) == [i \in DOMAIN es |-> es[i].price]

\* [...chainPrices.entries()].map(([c, p]) => ({chain, minPrice, avgPrice}))
ChainSummary(es) ==
  LET cs == ChainsOf(es)
  IN [i \in DOMAIN cs |->
        LET p == PricesOf(SelectSeq(es, LAMBDA e : e.chain = cs[i]))
        IN [chain |-> cs[i], minPrice |-> MinOf(p), avgPrice |-> MeanOf(p)]]

\* The price rows the catalog path pushes into chainPrices for one date.
KeptInDB(d, a) ==
  LET matchingProducts ==
        Limit(SelectSeq(d.products, LAMBDA x :
                /\ IF a.barcode # <<>> THEN x.barcode = a.barcode
                   ELSE Like(Contains(ToLowerCase(a.name)), x.name)
                /\ (a.chain # <<>> => x.chain = a.chain)),
              HistProductLimit)
      cityStoreRows == SelectSeq(d.stores, LAMBDA s : Like(Contains(a.city), s.city))
      cityStoreIds == {Key(cityStoreRows[i].chain, cityStoreRows[i].store_id) :
                         i \in DOMAIN cityStoreRows}
      productIds == {matchingProducts[i].product_id : i \in DOMAIN matchingProducts}
      matchingChains == {matchingProducts[i].chain : i \in DOMAIN matchingProducts}
      priceRows ==
        SelectSeq(d.prices, LAMBDA e :
          e.chain \in matchingChains /\ e.product_id \in productIds)
  IN IF matchingProducts = <<>> THEN <<>>
     ELSE SelectSeq(priceRows, LAMBDA e :
            a.city # <<>> => Key(e.chain, e.store_id) \in cityStoreIds)

\* The price rows the remote path pushes for one date, product by product.
KeptInMemory(d, a) ==
  LET matchingProducts ==
        SelectSeq(d.products, LAMBDA x :
          IF a.barcode # <<>> THEN x.barcode = a.barcode
          ELSE Includes(ToLowerCase(x.name), ToLowerCase(a.name)))
      cityStores ==
        IF a.city # <<>>
        THEN SelectSeq(d.stores, LAMBDA s :
               Includes(ToLowerCase(s.city), ToLowerCase(a.city)))
        ELSE d.stores
      cityStoreIds == {Key(cityStores[i].chain, cityStores[i].store_id) :
                         i \in DOMAIN cityStores}
      counted == SelectSeq(matchingProducts, LAMBDA x :
                   a.chain = <<>> \/ x.chain = a.chain)
      productPrices(x) ==
        SelectSeq(d.prices, LAMBDA e :
          /\ e.chain = x.chain
          /\ e.product_id = x.product_id
          /\ (a.city # <<>> => Key(e.chain, e.store_id) \in cityStoreIds))
  IN [some |-> matchingProducts # <<>>,
      rows |-> Flatten([i \in DOMAIN counted |-> productPrices(counted[i])])]

\* (a variant of the sort that returns the list as it was built)
Unsorted(h) == h

\* Array.prototype.sort((a, b) => a.date.localeCompare(b.date)): stable
RECURSIVE InsertByDate(_, _)
InsertByDate(sorted, x) ==
  IF sorted = <<>> THEN <<x>>
  ELSE IF Head(sorted).date <= x.date
       THEN <<Head(sorted)>> \o InsertByDate(Tail(sorted), x)
       ELSE <<x>> \o sorted

RECURSIVE InsertionSort(_)
InsertionSort(h) ==
  IF h = <<>> THEN <<>>
  ELSE InsertByDate(InsertionSort(SubSeq(h, 1, Len(h) - 1)), h[Len(h)])

SortByDate(h) == InsertionSort(h)

\* getPriceHistoryFromDB(barcode, productName, city, chain, days): dates is the
\* set of dates with a 'success' row (date is unique in ingestion_log)
getPriceHistoryFromDB(dates, dd, a) ==
  LET dateList == Limit(Descending(dates), a.days)
      ofDate(d) == LET kept == KeptInDB(dd[d], a)
                   IN IF kept = <<>> THEN <<>>
                      ELSE <<[date |-> d, prices |-> ChainSummary(kept)]>>
  IN SortByDate(Flatten([i \in DOMAIN dateList |-> ofDate(dateList[i])]))

\* The route's fallback: the first days archives of the list, fetchDayData of
\* each (a rejected one is dropped by Promise.allSettled), in list order.
historyFromArchives(dates, dd, failing, a) ==
  LET archiveList == Descending(dates)
      recentArchives == SubSeq(archiveList, 1, Min(a.days, Len(archiveList)))
      ofDate(d) == LET k == KeptInMemory(dd[d], a)
                   IN IF d \in failing \/ ~k.some THEN <<>>
                      ELSE <<[date |-> d, prices |-> ChainSummary(k.rows)]>>
  IN SortByDate(Flatten([i \in DOMAIN recentArchives |-> ofDate(recentArchives[i])]))

\* The rows of a day, and the arguments of a request.
Day(ss, ps, es) == [stores |-> ss, products |-> ps, prices |-> es]

HStore(c, id, ct) == [chain |-> c, store_id |-> id, city |-> ct]
HProduct(c, id, bc, nm) ==
  [chain |-> c, product_id |-> id, barcode |-> bc, name |-> nm, brand |-> <<>>]
HPrice(c, sid, pid, pr) == [chain |-> c, store_id |-> sid, product_id |-> pid, price |-> pr]

DayPool ==
  {NoData,
   Day(<<HStore(<<"a">>, <<"1">>, <<"Z", "g">>)>>,
       <<HProduct(<<"a">>, <<"1">>, <<"7">>, <<"K">>)>>,
       <<HPrice(<<"a">>, <<"1">>, <<"1">>, 5), HPrice(<<"a">>, <<"1">>, <<"1">>, 2)>>),
   Day(<<HStore(<<"a">>, <<"1">>, <<"Z", "g">>), HStore(<<"b">>, <<"1">>, <<"z", "g">>)>>,
       <<HProduct(<<"a">>, <<"1">>, <<"7">>, <<"K">>),
         HProduct(<<"b">>, <<"2">>, <<"7">>, <<"k">>),
         HProduct(<<"b">>, <<"1">>, <<"8">>, <<"m">>)>>,
       <<HPrice(<<"a">>, <<"1">>, <<"1">>, 5),
         HPrice(<<"b">>, <<"1">>, <<"2">>, 4),
         HPrice(<<"b">>, <<"1">>, <<"1">>, 2)>>)}

HistArgs ==
  {[barcode |-> b[1], name |-> b[2], city |-> ct, chain |-> ch, days |-> n] :
     b \in {<<<<"7">>, <<>>>>, <<<<>>, <<"K">>>>},
     ct \in {<<>>, <<"z", "G">>},
     ch \in {<<>>, <<"b">>},
     n \in {1, NumHistDates}}

HistoryInit ==
  /\ IngestInit
  /\ log = {}
  /\ archives = Descending(IngestDates)
  /\ SearchIdle
  /\ LookupIdle
  /\ RemoteIdle
  /\ CallersIdle
  /\ hdates \in SUBSET HistDates
  /\ hdata \in [HistDates -> DayPool]
  /\ DiscoveryIdle
  /\ ReaderIdle
  /\ ParsingIdle
  /\ hargs \in HistArgs
  /\ hvia \in {"db", "zip"}
  /\ hfail \in IF hvia = "db" THEN {{}} ELSE {{}, {2}}
  /\ hout = <<>>
  /\ hpc = "called"
  /\ hhttp = 0

HistoryRest == UNCHANGED <<hdates, hdata, hargs, hfail, hvia, ingest, search, lookup, remote, callers, discovery, reader, parsing>>

\* latestIngestedDate is set: history = await getPriceHistoryFromDB(...)
HistoryFromDB ==
  /\ hpc = "called" /\ hvia = "db"
  /\ hout' = getPriceHistoryFromDB(hdates, hdata, hargs)
  /\ hpc' = "returned"
  /\ hhttp' = hhttp
  /\ HistoryRest

\* no ingested date: the archive list, fetchDayData per date, the sort
HistoryFromZip ==
  /\ hpc = "called" /\ hvia = "zip"
  /\ hout' = historyFromArchives(hdates, hdata, hfail, hargs)
  /\ hpc' = "returned"
  /\ hhttp' = hhttp + 1 + Min(hargs.days, Cardinality(hdates))
  /\ HistoryRest

HistoryNext == HistoryFromDB \/ HistoryFromZip

SpecHistory == HistoryInit /\ [][HistoryNext]_vars

\* The history route from its start: the catalog and the upstream list are in
\* any state, and the read of the latest ingested date decides the path.
SuccessDates == {r.date : r \in {x \in log : x.status = "success"}}

RouteInit ==
  /\ IngestInit
  /\ \E st \in [Dates -> {"none", "success", "error"}] :
       log = {LogRow(d, st[d]) : d \in {x \in Dates : st[x] # "none"}}
  /\ \E S \in SUBSET Dates : archives = Descending(S)
  /\ SearchIdle
  /\ LookupIdle
  /\ RemoteIdle
  /\ CallersIdle
  /\ DiscoveryIdle
  /\ ReaderIdle
  /\ ParsingIdle
  /\ hdates = {}
  /\ hdata = [d \in Dates |->
               Day(<<HStore(<<"a">>, <<"1">>, <<"Z", "g">>)>>,
                   <<HProduct(<<"a">>, <<"1">>, <<"7">>, <<"K">>)>>,
                   <<HPrice(<<"a">>, <<"1">>, <<"1">>, 5)>>)]
  /\ hargs \in HistArgs
  /\ hfail = {}
  /\ hvia = "none"
  /\ hout = <<>>
  /\ hpc = "arrived"
  /\ hhttp = 0

\* latestIngestedDate = await getLatestIngestedDate().catch(() => null);
\* if (latestIngestedDate) the catalog path, else the archive list
HistoryLatest ==
  /\ hpc = "arrived"
  /\ \E ok \in BOOLEAN :
       LET latestIngestedDate == IF ok THEN GetLatestIngestedDate ELSE Undefined
       IN IF latestIngestedDate # Undefined
          THEN hvia' = "db" /\ hdates' = SuccessDates
          ELSE hvia' = "zip" /\ hdates' = Range(archives)
  /\ hpc' = "called"
  /\ UNCHANGED <<hdata, hargs, hfail, hout, hhttp, ingest, search, lookup, remote, callers, discovery, reader, parsing>>

RouteNext == HistoryLatest \/ HistoryFromDB \/ HistoryFromZip

SpecRoute == RouteInit /\ [][RouteNext]_vars

\* ------------------------------------- directory discovery (getZipEntries)
MaxComment == 65536   \* Math.min(65536 + 22, fileSize)
EocdSize == 22
MaxSmall == 8         \* archives of 1..MaxSmall bytes
Spread == 40          \* sizes this far below and above MaxComment + EocdSize

TailSizes ==
  (1..MaxSmall)
    \cup ((MaxComment + EocdSize - Spread)..(MaxComment + EocdSize + Spread))

\* tailSize = Math.min(65536 + 22, fileSize); tailStart = fileSize - tailSize;
\* fetchRange(url, tailStart, fileSize - 1)
TailRange(size) ==
  LET tailSize == Min(MaxComment + EocdSize, size)
      tailStart == size - tailSize
  IN [start |-> tailStart, end |-> size - 1]

DiscoveryInit ==
  /\ IngestInit
  /\ log = {}
  /\ archives = Descending(IngestDates)
  /\ SearchIdle
  /\ LookupIdle
  /\ RemoteIdle
  /\ CallersIdle
  /\ HistoryIdle
  /\ ReaderIdle
  /\ ParsingIdle
  /\ dsize \in TailSizes
  /\ dvia \in {"route", "ingest"}
  /\ dreq = NoRange
  /\ dpc = "called"

DiscoveryRest == UNCHANGED <<dsize, dvia, ingest, search, lookup, remote, callers, history, reader, parsing>>

\* getZipEntries of cijene.ts: the tail request
GetZipEntriesTail ==
  /\ dpc = "called" /\ dvia = "route"
  /\ dreq' = TailRange(dsize)
  /\ dpc' = "tail"
  /\ DiscoveryRest

\* getZipEntries of the ingest script: the tail request
IngestZipEntriesTail ==
  /\ dpc = "called" /\ dvia = "ingest"
  /\ dreq' = TailRange(dsize)
  /\ dpc' = "tail"
  /\ DiscoveryRest

DiscoveryNext == GetZipEntriesTail \/ IngestZipEntriesTail

SpecDiscovery == DiscoveryInit /\ [][DiscoveryNext]_vars

\* ------------------------------- the ZIP reader (fetchRange, fetchZipFile)
\* A file is described by its layout: local header, name, extra field and
\* data of each member, then the central directory, then the 22-byte end
\* record.  A buffer is a slice [from, len] of the file's bytes.
HeaderSize == 30     \* local header without name and extra field
CdEntrySize == 46    \* central-directory record without its name
Stored == 0
Deflate == 8
NameOffset == 26     \* filename length in the local header
ExtraOffset == 28    \* extra-field length in the local header
MaxExtra == 2        \* length of a member's local extra field: 0 or MaxExtra
MaxData == 3         \* compressed size of a member: 0 or MaxData

MemberShapes ==
  [nameLen : {1}, extraLen : {0, MaxExtra}, csize : {0, MaxData},
   method : {Stored, Deflate}]

LocalSize(s) == HeaderSize + s.nameLen + s.extraLen + s.csize

RECURSIVE OffsetOf(_, _)
OffsetOf(ss, i) ==
  IF i = 1 THEN 0 ELSE OffsetOf(ss, i - 1) + LocalSize(ss[i - 1])

RECURSIVE DirSizeOf(_)
DirSizeOf(ss) ==
  IF ss = <<>> THEN 0 ELSE CdEntrySize + Head(ss).nameLen + DirSizeOf(Tail(ss))

\* the archive with members of the shapes ss, in this order
ZipOf(ss) ==
  LET cdOffset == OffsetOf(ss, Len(ss) + 1)
      cdSize == DirSizeOf(ss)
  IN [size |-> cdOffset + cdSize + EocdSize, eocd |-> TRUE,
      cdOffset |-> cdOffset, cdSize |-> cdSize,
      members |-> [i \in DOMAIN ss |->
                     [lho |-> OffsetOf(ss, i), nameLen |-> ss[i].nameLen,
                      extraLen |-> ss[i].extraLen, csize |-> ss[i].csize,
                      method |-> ss[i].method]]]

\* upstream files: one of no bytes, an archive without members, archives of
\* two members
UpstreamFiles ==
  {NoFile, ZipOf(<<>>)} \cup {ZipOf(<<a, b>>) : a \in MemberShapes, b \in MemberShapes}

\* readUint16LE on the file's bytes at pos: the two length fields of the
\* local headers; other bytes read as 0
U16At(z, pos) ==
  IF \E i \in DOMAIN z.members : pos = z.members[i].lho + NameOffset
  THEN z.members[CHOOSE i \in DOMAIN z.members :
                   pos = z.members[i].lho + NameOffset].nameLen
  ELSE IF \E i \in DOMAIN z.members : pos = z.members[i].lho + ExtraOffset
  THEN z.members[CHOOSE i \in DOMAIN z.members :
                   pos = z.members[i].lho + ExtraOffset].extraLen
  ELSE 0

\* the ZipEntry records getZipEntries builds from the central directory
EntryOf(x) ==
  [localHeaderOffset |-> x.lho, compressedSize |-> x.csize,
   compressionMethod |-> x.method, filenameLength |-> x.nameLen]

ReqLen(r) == r.end - r.start + 1

\* What a server may answer to Range: bytes=start-end.  A range it can
\* satisfy: 206 with the bytes (up to the end of the file), 200 with the whole
\* file (the header is ignored), 206 with one byte less than asked for, or an
\* error status.  Any other range: the whole file or 416.
Responses(z, r) ==
  IF 0 <= r.start /\ r.start <= r.end /\ r.start < z.size
  THEN {[status |-> 206, from |-> r.start,
         len |-> Min(r.end, z.size - 1) - r.start + 1],
        [status |-> 200, from |-> 0, len |-> z.size],
        [status |-> 206, from |-> r.start, len |-> ReqLen(r) - 1],
        [status |-> 500, from |-> 0, len |-> 0]}
  ELSE {[status |-> 200, from |-> 0, len |-> z.size],
        [status |-> 416, from |-> 0, len |-> 0]}

\* res.ok || res.status === 206
Accepted(x) == (200 <= x.status /\ x.status <= 299) \/ x.status = 206

\* return res.arrayBuffer(): the whole body
ArrayBuffer(x) == [from |-> x.from, len |-> x.len]

ErrorOf(n) == [kind |-> "error", name |-> n, buf |-> <<>>]
TextOf(b) == [kind |-> "text", name |-> "", buf |-> b]

\* the backward scan for 0x06054b50 from byteLength - 22
EocdFound(z, b) ==
  z.eocd /\ b.from <= z.size - EocdSize /\ b.from + b.len >= z.size

\* (mutant of DataOffset: the lengths of the central-directory entry)
DataOffsetFromDirectory(z, e, b) == e.localHeaderOffset + HeaderSize + e.filenameLength

\* dataOffset = entry.localHeaderOffset + 30 + localFilenameLength +
\* localExtraLength, both read from the header buffer
DataOffset(z, e, b) ==
  e.localHeaderOffset + HeaderSize + U16At(z, b.from + NameOffset)
     + U16At(z, b.from + ExtraOffset)

ReaderInit ==
  /\ IngestInit
  /\ log = {}
  /\ archives = Descending(IngestDates)
  /\ SearchIdle
  /\ LookupIdle
  /\ RemoteIdle
  /\ CallersIdle
  /\ HistoryIdle
  /\ DiscoveryIdle
  /\ ParsingIdle
  /\ zarch \in UpstreamFiles
  /\ zpick \in 1..2
  /\ zreqs = <<>>
  /\ zresp = <<>>
  /\ zbufs = <<>>
  /\ zpc = "called"
  /\ zout = NoOutcome

ReaderRest == UNCHANGED <<zarch, zpick, ingest, search, lookup, remote, callers, history, discovery, parsing>>

\* fetchRange(url, start, end) up to its await
Ask(r, at) ==
  /\ zreqs' = Append(zreqs, r)
  /\ zpc' = at
  /\ zout' = zout

Stop(out) ==
  /\ zreqs' = zreqs
  /\ zpc' = "done"
  /\ zout' = out

\* fetchRange resumes with the response x to the last range asked for
Receive(x) ==
  /\ x \in Responses(zarch, zreqs[Len(zreqs)])
  /\ zresp' = Append(zresp, x)
  /\ zbufs' = IF Accepted(x)
              THEN Append(zbufs, ArrayBuffer(x))
              ELSE zbufs

\* getZipEntries: the tail request
ReaderStart ==
  /\ zpc = "called"
  /\ Ask(TailRange(zarch.size), "tail")
  /\ UNCHANGED <<zresp, zbufs>>
  /\ ReaderRest

\* the tail arrives: the end record is found or not; the directory request
ReaderTail ==
  /\ zpc = "tail"
  /\ \E x \in Responses(zarch, zreqs[Len(zreqs)]) :
       /\ Receive(x)
       /\ IF ~Accepted(x) THEN Stop(ErrorOf("RangeFailed"))
          ELSE IF ~EocdFound(zarch, ArrayBuffer(x))
          THEN Stop(ErrorOf("EOCDNotFound"))
          ELSE Ask([start |-> zarch.cdOffset,
                    end |-> zarch.cdOffset + zarch.cdSize - 1], "dir")
  /\ ReaderRest

\* the directory arrives and is parsed; fetchZipFile asks for the local header
ReaderDir ==
  /\ zpc = "dir"
  /\ \E x \in Responses(zarch, zreqs[Len(zreqs)]) :
       /\ Receive(x)
       /\ LET b == ArrayBuffer(x)
              whole == b.from = zarch.cdOffset /\ b.len >= zarch.cdSize
              e == EntryOf(zarch.members[zpick])
          IN IF ~Accepted(x) THEN Stop(ErrorOf("RangeFailed"))
             ELSE IF b.from = zarch.cdOffset /\ b.len < zarch.cdSize
             THEN Stop(ErrorOf("RangeError"))
             ELSE IF ~whole \/ zarch.members = <<>>
             THEN Stop([kind |-> "empty", name |-> "", buf |-> <<>>])
             ELSE Ask([start |-> e.localHeaderOffset,
                       end |-> e.localHeaderOffset + HeaderSize - 1], "header")
  /\ ReaderRest

\* the local header arrives; the data request
ReaderHeader ==
  /\ zpc = "header"
  /\ \E x \in Responses(zarch, zreqs[Len(zreqs)]) :
       /\ Receive(x)
       /\ LET b == ArrayBuffer(x)
              e == EntryOf(zarch.members[zpick])
              dataOffset == DataOffset(zarch, e, b)
          IN IF ~Accepted(x) THEN Stop(ErrorOf("RangeFailed"))
             ELSE IF b.len < HeaderSize THEN Stop(ErrorOf("RangeError"))
             ELSE Ask([start |-> dataOffset,
                       end |-> dataOffset + e.compressedSize - 1], "payload")
  /\ ReaderRest

\* the bytes a deflate stream decodes to: the member's data when the buffer
\* is exactly that data, an error otherwise
Inflated(z, b) ==
  IF \E i \in DOMAIN z.members :
       b.from = z.members[i].lho + LocalSize(z.members[i]) - z.members[i].csize
       /\ b.len = z.members[i].csize
  THEN TextOf(b)
  ELSE ErrorOf("TypeError")

\* the data arrives and is decoded
ReaderPayload ==
  /\ zpc = "payload"
  /\ \E x \in Responses(zarch, zreqs[Len(zreqs)]) :
       /\ Receive(x)
       /\ LET b == ArrayBuffer(x)
              e == EntryOf(zarch.members[zpick])
          IN IF ~Accepted(x) THEN Stop(ErrorOf("RangeFailed"))
             ELSE IF e.compressionMethod = Stored THEN Stop(TextOf(b))
             ELSE IF e.compressionMethod = Deflate THEN Stop(Inflated(zarch, b))
             ELSE Stop(ErrorOf("UnsupportedCompression"))
  /\ ReaderRest

ReaderNext ==
  ReaderStart \/ ReaderTail \/ ReaderDir \/ ReaderHeader \/ ReaderPayload

SpecReader == ReaderInit /\ [][ReaderNext]_vars

\* ------------------------------------------------ CSV decoding (parseCSVText)
MaxText == 5   \* characters of a CSV text

CsvChars == {"a", ",", "\"", " ", "\n"}

Texts == UNION {[1..n -> CsvChars] : n \in 0..MaxText}

\* String.prototype.split(sep): the pieces between the separators
RECURSIVE Split(_, _)
Split(s, sep) ==
  IF \A i \in DOMAIN s : s[i] # sep THEN <<s>>
  ELSE LET k == CHOOSE i \in DOMAIN s : s[i] = sep /\ \A j \in 1..(i - 1) : s[j] # sep
       IN <<SubSeq(s, 1, k - 1)>> \o Split(SubSeq(s, k + 1, Len(s)), sep)

\* the loop over the characters of a line: j, current, inQuotes, values
RECURSIVE Scan(_, _, _, _, _)
Scan(line, j, current, inQuotes, values) ==
  IF j > Len(line) THEN Append(values, current)
  ELSE IF line[j] = "\"" THEN Scan(line, j + 1, current, ~inQuotes, values)
  ELSE IF line[j] = "," /\ ~inQuotes
       THEN Scan(line, j + 1, <<>>, inQuotes, Append(values, current))
       ELSE Scan(line, j + 1, Append(current, line[j]), inQuotes, values)

\* (mutant of Values: every comma separates)
ValuesBySplit(line) ==
  LET parts == Split(line, ",")
  IN [i \in DOMAIN parts |-> SelectSeq(parts[i], LAMBDA c : c # "\"")]

\* values: the fields of a line
Values(line) == Scan(line, 1, <<>>, FALSE, <<>>)

\* headers.forEach((header, idx) => row[header.trim()] = (values[idx] || "").trim())
RowOf(headers, values) ==
  [k \in {Trim(headers[i]) : i \in DOMAIN headers} |->
     LET idx == Max({i \in DOMAIN headers : Trim(headers[i]) = k})
     IN IF idx <= Len(values) THEN Trim(values[idx]) ELSE <<>>]

parseCSVText(text) ==
  LET lines == Split(text, "\n")
  IN IF Len(lines) < 2 THEN <<>>
     ELSE LET headers == Split(Trim(lines[1]), ",")
              kept == SelectSeq(Tail(lines), LAMBDA l : Trim(l) # <<>>)
          IN [i \in DOMAIN kept |-> RowOf(headers, Values(Trim(kept[i])))]

ParsingRest == UNCHANGED <<ingest, search, lookup, remote, callers, history, discovery, reader>>

CsvInit ==
  /\ IngestInit
  /\ log = {}
  /\ archives = Descending(IngestDates)
  /\ SearchIdle
  /\ LookupIdle
  /\ RemoteIdle
  /\ CallersIdle
  /\ HistoryIdle
  /\ DiscoveryIdle
  /\ ReaderIdle
  /\ ptext \in Texts
  /\ prows = <<>>
  /\ pmapped = <<>>
  /\ ppc = "text"

\* const rows = parseCSVText(text)
ParseText ==
  /\ ppc = "text"
  /\ prows' = parseCSVText(ptext)
  /\ ppc' = "rows"
  /\ UNCHANGED <<ptext, pmapped>>
  /\ ParsingRest

SpecCsv == CsvInit /\ [][ParseText]_vars

\* ------------------------------------------- price rows mapped from records
MaxField == 2   \* characters of a numeric field's text

Digits == {"0", "1"}
FieldTexts == UNION {[1..n -> Digits \cup {".", "x"}] : n \in 0..MaxField}

NaN == [kind |-> "NaN", text |-> <<>>]
Null == [kind |-> "null", text |-> <<>>]
Zero == [kind |-> "number", text |-> <<"0">>]
NumberOf(t) == [kind |-> "number", text |-> t]

\* a decimal literal: digits with at most one point and at least one digit
IsNumeral(t) ==
  /\ t # <<>>
  /\ \A i \in DOMAIN t : t[i] \in Digits \cup {"."}
  /\ Cardinality({i \in DOMAIN t : t[i] = "."}) <= 1
  /\ \E i \in DOMAIN t : t[i] \in Digits

\* parseFloat(t): the number written by the longest prefix that is a
\* decimal literal, NaN when there is none
parseFloat(t) ==
  LET ns == {n \in 1..Len(t) : IsNumeral(SubSeq(t, 1, n))}
  IN IF ns = {} THEN NaN ELSE NumberOf(SubSeq(t, 1, Max(ns)))

\* a value that || replaces: NaN or 0
Falsy(v) ==
  \/ v.kind = "NaN"
  \/ v.kind = "number" /\ \A i \in DOMAIN v.text : v.text[i] # "1"

\* price: parseFloat(r.price) || 0
PriceOf(t) == IF Falsy(parseFloat(t)) THEN Zero ELSE parseFloat(t)

\* unit_price: r.unit_price ? parseFloat(r.unit_price) : null
OptionalOf(t) == IF t # <<>> THEN parseFloat(t) ELSE Null

OptionalFields == {"unit_price", "best_price_30", "anchor_price", "special_price"}

PriceRow(r) ==
  [f \in {"price"} \cup OptionalFields |->
     IF f = "price" THEN PriceOf(r[f]) ELSE OptionalOf(r[f])]

PriceInit ==
  /\ IngestInit
  /\ log = {}
  /\ archives = Descending(IngestDates)
  /\ SearchIdle
  /\ LookupIdle
  /\ RemoteIdle
  /\ CallersIdle
  /\ HistoryIdle
  /\ DiscoveryIdle
  /\ ReaderIdle
  /\ ptext = <<>>
  /\ \E p \in FieldTexts, u \in FieldTexts, b \in {<<>>, <<"x">>},
        a \in {<<>>, <<"1">>}, s \in {<<>>, <<".">>} :
       prows = <<[price |-> p, unit_price |-> u, best_price_30 |-> b,
                  anchor_price |-> a, special_price |-> s]>>
  /\ pmapped = <<>>
  /\ ppc = "rows"

\* ingestDate: const priceRows = rows.map(...)
MapPricesIngest ==
  /\ ppc = "rows"
  /\ pmapped' = [i \in DOMAIN prows |-> PriceRow(prows[i])]
  /\ ppc' = "ingest"
  /\ UNCHANGED <<ptext, prows>>
  /\ ParsingRest

\* searchProductsEfficient and fetchDayData: allPrices.push(...rows.map(...))
MapPricesRemote ==
  /\ ppc = "rows"
  /\ pmapped' = [i \in DOMAIN prows |-> PriceRow(prows[i])]
  /\ ppc' = "remote"
  /\ UNCHANGED <<ptext, prows>>
  /\ ParsingRest

PriceNext == MapPricesIngest \/ MapPricesRemote

SpecPrice == PriceInit /\ [][PriceNext]_vars

\* =============================================================== claims
Running(p) == pc[p] \notin {"idle", "done"}
Ended(p) == pc[p] = "done" /\ result[p] # "noop"
TableNames == {"stores", "products", "prices"}
DateRowSet(d) == {x \in Rows : x[1] = d}

RECURSIVE SumOver(_, _)
SumOver(S, g) ==
  IF S = {} THEN 0
  ELSE LET x == CHOOSE y \in S : TRUE IN g[x] + SumOver(S \ {x}, g)

\* select count(*) from <table> where date = d
CountRows(f, d) == SumOver(DateRowSet(d), tables[f])

SomeRow(rows) == \E f \in TableNames : \E r \in DOMAIN rows[f] : rows[f][r] > 0

\* C1: a reader that queries the rows of a date while an ingest of the date
\* runs sees the complete rows from before the ingest or the complete rows
\* from after it.
C1_AtomicReplace ==
  \A p \in Procs :
    (pc[p] = "done" /\ seen[p] # None) =>
       seen[p][1] \in {pre[p].rows, DateRows(date[p])}

\* C2: when a row insert has failed, the ingest ends with the date's rows as
\* they were before it and with an 'error' log row carrying the message.
C2_InsertFailureRollsBack ==
  \A p \in Procs :
    (pc[p] = "done" /\ \E c \in AllChains : tasks[p][c].st = "ierr") =>
       /\ DateRows(date[p]) = pre[p].rows
       /\ \E r \in LogRowsOf(date[p]) :
             r.status = "error" /\ r.errorMessage # "null"

\* C3: two ingests of one date are serialized: never both in the part of
\* ingestDate that deletes and inserts the date's rows, and when both have
\* ended no row of the date is in a table twice.
Writing(p) == pc[p] \in {"delStores", "delProducts", "delPrices", "chains"}

C3_SameDateSerialized ==
  \A p \in Procs, q \in Procs :
    (p # q /\ date[p] = date[q]) =>
       /\ ~(Writing(p) /\ Writing(q))
       /\ (Ended(p) /\ Ended(q) /\ (force[p] \/ force[q])) =>
             \A f \in TableNames : \A r \in DateRowSet(date[p]) : tables[f][r] <= 1

\* C4 as stated: a forced ingest run to completion twice leaves the rows of
\* the date and the three counts of its log row as the first run left them.
Counts(l) == {<<r.storeCount, r.productCount, r.priceCount>> : r \in l}

TwiceForced(p) ==
  /\ pc[p] = "done" /\ force[p] /\ result[p] = "ok"
  /\ prev[p] # None
  /\ prev[p].force /\ prev[p].result = "ok" /\ prev[p].date = date[p]

SameAsFirstRun(p) ==
  /\ DateRows(date[p]) = prev[p].rows
  /\ Counts(LogRowsOf(date[p])) = Counts(prev[p].log)

C4_ForceIdempotent ==
  \A p \in Procs : TwiceForced(p) => SameAsFirstRun(p)

\* C4 amended: the same, when every chain task ends the same way in both runs
\* (loads all its members, or fails at the same member and batch).
C4_ForceIdempotentSameOutcomes ==
  \A p \in Procs :
    (TwiceForced(p) /\ tasks[p] = prev[p].tasks) => SameAsFirstRun(p)

C4_Witness ==
  \E p \in Procs :
    /\ TwiceForced(p) /\ tasks[p] = prev[p].tasks
    /\ \A c \in Range(ChainList(date[p])) : tasks[p][c].st = "ok"
    /\ SomeRow(DateRows(date[p]))

C6_ResolutionOrder ==
  (spc = "done" /\ resp.status = 200 /\ resp.source # "none") =>
     IF IsDateIngested(sdate)
     THEN resp.source = "db" /\ resp.date = sdate
     ELSE IF GetLatestIngestedDate # Undefined
     THEN resp.source = "db" /\ resp.date = GetLatestIngestedDate
     ELSE /\ resp.source = "zip"
          /\ resp.date = IF sdate \in Range(archives) THEN sdate
                         ELSE Max(Range(archives))

C8_CountsAreRowsPresent ==
  \A p \in Procs :
    (pc[p] = "done" /\ result[p] = "ok"
       /\ \E c \in AllChains : tasks[p][c].st \in {"ferr", "ierr"}) =>
       \E r \in log :
          /\ LogRowsOf(date[p]) = {r}
          /\ r.status = "success"
          /\ r.storeCount = CountRows("stores", date[p])
          /\ r.productCount = CountRows("products", date[p])
          /\ r.priceCount = CountRows("prices", date[p])

C11_StoresUniqueInSuccessDate ==
  \A d \in IngestDates :
    "success" \in StatusOf(d) =>
       \A r \in DateRowSet(d) : tables.stores[r] <= 1

\* C12: in every group a search returns (catalog path and in-memory path),
\* every attached price carries a loaded store of the price's chain whose city
\* contains the city filter, letter case aside.
C12_PricesCarryCityStores ==
  qpc = "returned" =>
    \A g \in Range(found) : \A e \in Range(g.prices) :
       /\ e.store \in Range(data.stores)
       /\ e.store.chain = e.chain
       /\ city # <<>> => Includes(ToLowerCase(e.store.city), ToLowerCase(city))

\* C13: two different matched products are in one group of a search only with
\* equal non-empty barcodes, or with the same (chain, product_id) and no barcode.
Matched(x) ==
  IF via = "db" THEN MatchesInDB(x, NormalizedQuery(query))
                ELSE MatchesInMemory(x, NormalizedQuery(query))

C13_GroupsShareBarcode ==
  qpc = "returned" =>
    \A g \in Range(found) :
      \A x \in Range(data.products), y \in Range(data.products) :
         (Matched(x) /\ Matched(y) /\ GroupKey(x) = g.key /\ GroupKey(y) = g.key) =>
            \/ x.barcode = y.barcode /\ x.barcode # <<>>
            \/ /\ x.barcode = <<>> /\ y.barcode = <<>>
               /\ x.chain = y.chain /\ x.product_id = y.product_id

\* C14: in the remote search the first loop asks for products.csv members only;
\* a stores.csv or prices.csv member of a chain is asked for only when every
\* chain's products.csv fetch is over (none in flight, every chain that has one
\* was asked) and a fetched product of that chain matches the query; with no
\* matching product no stores.csv or prices.csv is asked for.
InFlight(t) == t.st \in {"header", "payload"}

PhaseAOver ==
  /\ \A c \in DOMAIN rtask : ~(InFlight(rtask[c]) /\ rtask[c].file = "products")
  /\ \A c \in 1..arch.n :
       "products" \in arch.files[c] => \E b \in began : b[1] = c /\ b[2] = "products"

C14_PhaseBOnlyMatchingChains ==
  /\ rpc = "A" => \A b \in began : b[2] = "products"
  /\ \A b \in began :
       b[2] \in {"stores", "prices"} =>
          /\ PhaseAOver
          /\ b[1] \in allProducts
          /\ b[1] \in arch.match
  /\ (allProducts \cap arch.match = {}) => sent.stores = 0 /\ sent.prices = 0

C14_Witness ==
  /\ rpc = "done"
  /\ rout = "zip"
  /\ arch.match = {Spar}
  /\ allProducts = {Lidl, Spar}
  /\ {b \in began : b[2] # "products"} = {<<Spar, "stores", "B">>, <<Spar, "prices", "B">>}

\* C15: with an empty catalog, a cold directory cache and no failing request,
\* a search on the archive of lidl and spar (three members each) whose query
\* matches products of spar only ends with source 'zip' after 1 list request,
\* 1 HEAD, 1 tail fetch, 1 directory fetch, 2 products.csv member fetches and
\* the stores.csv and prices.csv fetches of spar; every member fetch is two
\* range requests, which with the tail, the directory and the HEAD makes 11.
Scenario15 ==
  /\ arch.n = 2
  /\ arch.files = <<ThreeCsv, ThreeCsv>>
  /\ arch.match = {Spar}
  /\ rpc = "done"

Counts15 ==
  /\ sent.list = 1
  /\ sent.head = 1
  /\ sent.tail = 1
  /\ sent.dir = 1
  /\ sent.products = 2
  /\ sent.stores = 1
  /\ sent.prices = 1

\* HEAD, tail, directory and the range requests of the member fetches
RangeLike == sent.head + sent.tail + sent.dir + sent.range

ColdAndSound == faults = 0 /\ sent.tail = 1

C15_RequestCountTwoPerMember ==
  (Scenario15 /\ ColdAndSound) =>
     /\ Counts15
     /\ sent.range = 2 * (sent.products + sent.stores + sent.prices)
     /\ RangeLike = 11
     /\ rout = "zip"

\* C15 as stated, read with the same cold cache and sound requests: seven
\* range-like requests in all.
C15_SevenRequests ==
  (Scenario15 /\ ColdAndSound) => (Counts15 /\ RangeLike = 7 /\ rout = "zip")

C15_Witness ==
  /\ Scenario15
  /\ ColdAndSound
  /\ rout = "zip"
  /\ began = {<<Lidl, "products", "A">>, <<Spar, "products", "A">>, <<Spar, "stores", "B">>, <<Spar, "prices", "B">>}

\* C17: during one remote search at most 8 products.csv fetches are in flight
\* in the first loop and at most 8 stores.csv / prices.csv fetches in the
\* second, whatever the number of chains.
FetchesInFlight == {c \in DOMAIN rtask : InFlight(rtask[c])}

C17_AtMostEightFetches ==
  /\ Cardinality(FetchesInFlight) <= SearchConcurrency
  /\ rpc = "A" => \A c \in FetchesInFlight : rtask[c].file = "products"
  /\ rpc = "B" => \A c \in FetchesInFlight : rtask[c].file \in {"stores", "prices"}
  /\ rpc \notin {"A", "B"} => FetchesInFlight = {}

C17_Witness ==
  /\ arch.n > SearchConcurrency
  /\ Len(matchingChainList) > SearchConcurrency
  /\ rpc = "B"
  /\ Cardinality(FetchesInFlight) = SearchConcurrency

\* C16: during one ingest at most 5 chain tasks are in flight at any moment,
\* whatever the number of chains in the archive.
TasksInFlight(p) == {c \in AllChains : tasks[p][c].st \in {"fetch", "insert"}}

C16_AtMostFiveChainTasks ==
  \A p \in Procs : Cardinality(TasksInFlight(p)) <= CONCURRENCY

C16_Witness ==
  /\ Len(ChainList(date[1])) > CONCURRENCY
  /\ pc[1] = "chains"
  /\ batchAt[1] = 0
  /\ Cardinality(TasksInFlight(1)) = CONCURRENCY

\* C18: for an archive URL the central directory is fetched at most once per
\* size in the life of the process, however the callers of the cached lookup
\* interleave.
C18_DirectoryFetchedOnce ==
  \A s \in Sizes : dirFetched[s] <= 1

\* C19: the list history returns, on the catalog path and on the remote path,
\* is strictly ascending by date, so no date appears twice.
C19_HistoryStrictlyAscending ==
  hpc = "returned" =>
     \A i, j \in DOMAIN hout : i < j => hout[i].date < hout[j].date

C19_Witness ==
  /\ hpc = "returned"
  /\ hvia = "zip"
  /\ Len(hout) = NumHistDates

\* C20: on the catalog path of history, for every date and chain emitted,
\* minPrice and avgPrice are the minimum and the mean of exactly the date's
\* price rows whose (chain, product_id) is that of a matching product (barcode
\* equal, or name substring when no barcode is given, and chain equal when a
\* chain is given) and whose store passes the city filter.
MatchesHistory(x, a) ==
  /\ IF a.barcode # <<>> THEN x.barcode = a.barcode
     ELSE Includes(ToLowerCase(x.name), ToLowerCase(a.name))
  /\ (a.chain # <<>> => x.chain = a.chain)

StorePasses(d, e, a) ==
  a.city # <<>> =>
     \E s \in Range(d.stores) :
        /\ s.chain = e.chain
        /\ s.store_id = e.store_id
        /\ Includes(ToLowerCase(s.city), ToLowerCase(a.city))

ExpectedRows(d, c, a) ==
  SelectSeq(d.prices, LAMBDA e :
    /\ e.chain = c
    /\ \E x \in Range(d.products) :
          x.chain = e.chain /\ x.product_id = e.product_id /\ MatchesHistory(x, a)
    /\ StorePasses(d, e, a))

SameMean(m, n) == m.num * n.den = n.num * m.den

C20_HistoryAggregatesMatchingRows ==
  (hpc = "returned" /\ hvia = "db") =>
     \A i \in DOMAIN hout : \A j \in DOMAIN hout[i].prices :
        LET s == hout[i].prices[j]
            rows == PricesOf(ExpectedRows(hdata[hout[i].date], s.chain, hargs))
        IN /\ rows # <<>>
           /\ s.minPrice = MinOf(rows)
           /\ SameMean(s.avgPrice, MeanOf(rows))

\* C21: for the same rows of a date and the same arguments, the remote path
\* of history gives the date the same entry as the catalog path: the same
\* chains with the same minPrice and avgPrice, or no entry on either.
EntryOfDB(d, a) ==
  LET kept == KeptInDB(d, a)
  IN IF kept = <<>> THEN <<>> ELSE <<ChainSummary(kept)>>

EntryOfZip(d, a) ==
  LET k == KeptInMemory(d, a)
  IN IF ~k.some THEN <<>> ELSE <<ChainSummary(k.rows)>>

OtherPath(d) ==
  IF hvia = "db" THEN EntryOfZip(hdata[d], hargs) ELSE EntryOfDB(hdata[d], hargs)

SameSummary(x, y) ==
  /\ \A s \in Range(x) : \E t \in Range(y) :
        s.chain = t.chain /\ s.minPrice = t.minPrice /\ SameMean(s.avgPrice, t.avgPrice)
  /\ \A t \in Range(y) : \E s \in Range(x) :
        s.chain = t.chain /\ s.minPrice = t.minPrice /\ SameMean(s.avgPrice, t.avgPrice)

\* the dates the request looked at
DatesRead ==
  Range(Limit(Descending(hdates), hargs.days)) \ hfail

C21_PathsGiveSameEntry ==
  hpc = "returned" =>
     /\ \A i \in DOMAIN hout :
           /\ OtherPath(hout[i].date) # <<>>
           /\ SameSummary(OtherPath(hout[i].date)[1], hout[i].prices)
     /\ \A d \in DatesRead :
           (\A i \in DOMAIN hout : hout[i].date # d) => OtherPath(d) = <<>>

\* C22: on both paths every entry history returns has a non-empty prices
\* list: a date with no price of a matching product that passes the filters is
\* left out, and so is a chain without such a price.
C22_NoEmptyEntries ==
  hpc = "returned" => \A i \in DOMAIN hout : hout[i].prices # <<>>

\* C23: when the catalog holds the rows of a date's archive, a search whose
\* query is the name of a product returns, in the product's group, exactly
\* the price rows of the product's chain and product_id at stores whose city
\* passes the filter: none missing, none added, none twice.  (Prices that
\* the group holds from other chains under the same barcode are left aside.)
CityMatches(s) == city = <<>> \/ Includes(ToLowerCase(s.city), ToLowerCase(city))

RowsExpected(x) ==
  SelectSeq(data.prices, LAMBDA e :
    /\ e.chain = x.chain
    /\ e.product_id = x.product_id
    /\ \E s \in Range(data.stores) :
          s.chain = e.chain /\ s.store_id = e.store_id /\ CityMatches(s))

\* the prices of chain c attached to the group of key k
AttachedOf(k, c) ==
  LET at == {i \in DOMAIN found : found[i].key = k}
  IN IF at = {} THEN <<>>
     ELSE SelectSeq(found[CHOOSE i \in at : TRUE].prices, LAMBDA e : e.chain = c)

Times(seq, t) == Cardinality({i \in DOMAIN seq : seq[i] = t})

SameRows(attached, rows) ==
  LET got == [i \in DOMAIN attached |->
                <<attached[i].chain, attached[i].store.store_id, attached[i].price>>]
      want == [i \in DOMAIN rows |-> <<rows[i].chain, rows[i].store_id, rows[i].price>>]
  IN \A t \in Range(got) \cup Range(want) : Times(got, t) = Times(want, t)

C23_SearchAfterIngestExact ==
  (qpc = "returned" /\ via = "db") =>
     \A x \in Range(data.products) :
        x.name = query =>
           SameRows(AttachedOf(GroupKey(x), x.chain), RowsExpected(x))

\* C24: a search during which a catalog read rejected answers with the error
\* (status 500), not with results from another source.
C24_CatalogErrorSurfaced ==
  (spc = "done" /\ rejected # {}) => resp.status = 500

\* C25: a remote search in which the fetch of a chain with matching products
\* failed does not answer like a search without matches: the answer holds the
\* results of a chain that was read (the response has no field that tells of a
\* failed chain: source is 'zip' in every answer of this path).
ChainFetchFailed == \E c \in DOMAIN rtask : c \in arch.match /\ rtask[c] = ErrTask

HasResults == \E c \in Range(matchingChainList) : rtask[c] = OkTask

C25_FailureNotSilentlyEmpty ==
  (rpc = "done" /\ rout = "zip" /\ ChainFetchFailed) => HasResults

\* C26: with no ingested date in the catalog and no archive upstream, a search
\* answers with an empty result (status 200, not an error) and the date it
\* resolved to, or the date asked for.
C26_NotFoundIsEmptyResult ==
  (spc = "done" /\ rejected = {} /\ GetLatestIngestedDate = Undefined
     /\ archives = <<>>) =>
        /\ resp.status = 200
        /\ resp.date \in {actualDate, sdate}

\* C27: when reading the products.csv of one chain fails (unsupported
\* compression method), an ingest into a date without rows completes with
\* status 'success' and that chain has no row in stores, products or prices.
C27_FailedChainContributesNothing ==
  \A p \in Procs : \A c \in AllChains :
    (/\ pc[p] = "done" /\ result[p] = "ok"
     /\ tasks[p][c].st = "ferr" /\ FileOf(tasks[p][c]) = "products"
     /\ ~SomeRow(pre[p].rows)) =>
        /\ "success" \in StatusOf(date[p])
        /\ \A f \in TableNames : \A r \in DateRowSet(date[p]) :
              r[2] = c => tables[f][r] = 0

\* C28: an ingest of a date, forced or not, ending well or not, alone or
\* beside an ingest of another date, changes no stores, products, prices or
\* ingestion_log row of another date: the rows of a date change only in a
\* step of an invocation that ingests that date.
StepOf(p) == pc'[p] # pc[p] \/ tasks'[p] # tasks[p]

DateTouched(d) == DateRows(d)' # DateRows(d) \/ LogRowsOf(d)' # LogRowsOf(d)

C28_OtherDatesUntouched ==
  [][\A d \in {1, FrameDate} :
        DateTouched(d) => \E p \in Procs : date[p] = d /\ Running(p) /\ StepOf(p)]_vars

C28_Witness ==
  /\ pc[1] = "done" /\ result[1] = "ok" /\ force[1]
  /\ pc[2] = "done" /\ result[2] = "ok"
  /\ SomeRow(DateRows(1))
  /\ SomeRow(DateRows(FrameDate))

\* C29: the list a search returns, from the catalog or from the archive rows,
\* has no group with an empty prices list, is ordered by non-increasing number
\* of prices, and holds at most 50 groups.
C29_ResultListRanked ==
  qpc = "returned" =>
    /\ \A i \in DOMAIN found : found[i].prices # <<>>
    /\ \A i \in DOMAIN found : \A j \in DOMAIN found :
         i < j => Len(found[i].prices) >= Len(found[j].prices)
    /\ Len(found) <= MaxGroups

\* the group of the first product of the rows has fewer prices than a later
\* group and comes after it
C29_Witness ==
  /\ qpc = "returned"
  /\ Len(found) = 2
  /\ Len(found[1].prices) > Len(found[2].prices)
  /\ found[2].key = GroupKey(data.products[1])

\* C30: directory discovery asks for a trailing window of exactly
\* min(fileSize, 65557) bytes: the byte range from
\* fileSize - min(fileSize, 65557) to fileSize - 1.
C30_TailWindowRange ==
  dpc = "tail" =>
    /\ dreq.end - dreq.start + 1 = Min(dsize, 65557)
    /\ dreq.start = dsize - Min(dsize, 65557)
    /\ dreq.end = dsize - 1

\* C31: extracting a member asks for the 30 bytes of the local header at
\* localHeaderOffset and then for exactly compressedSize bytes from
\* localHeaderOffset + 30 + filename length + extra-field length, the two
\* lengths being those held by the header response (the member's own local
\* lengths when the server sent the header's bytes), not those of the
\* central directory.
ValidRange(r) == 0 <= r.start /\ r.start <= r.end

Exact(i) == zresp[i].status = 206 /\ zresp[i].from = zreqs[i].start /\ zresp[i].len = ReqLen(zreqs[i])

C31_MemberRequests ==
  LET x == zarch.members[zpick]
  IN /\ Len(zreqs) >= 3 =>
          zreqs[3] = [start |-> x.lho, end |-> x.lho + 29]
     /\ Len(zreqs) >= 4 =>
          /\ zreqs[4].start = x.lho + 30 + U16At(zarch, zbufs[3].from + 26)
                                 + U16At(zarch, zbufs[3].from + 28)
          /\ ReqLen(zreqs[4]) = x.csize
          /\ Exact(3) => zreqs[4].start = x.lho + 30 + x.nameLen + x.extraLen

C31_Witness ==
  /\ zpc = "done" /\ zout.kind = "text"
  /\ Len(zreqs) = 4 /\ Exact(3) /\ Exact(4)
  /\ zarch.members[zpick].extraLen = MaxExtra
  /\ zarch.members[zpick].csize = MaxData

\* C32: when a range request is answered with status 200 and a body longer
\* than the range, the reader uses only the first end - start + 1 bytes of
\* the body.
C32_WholeBodyCutToRange ==
  \A i \in DOMAIN zbufs :
    (ValidRange(zreqs[i]) /\ zresp[i].status = 200 /\ zresp[i].len > ReqLen(zreqs[i])) =>
        zbufs[i] = [from |-> zresp[i].from, len |-> ReqLen(zreqs[i])]

\* C33: when the response to the local-header request or to the data request
\* holds fewer bytes than asked for, member extraction ends with a
\* TruncatedArchive error, and with no text.
Short(i) == ValidRange(zreqs[i]) /\ Accepted(zresp[i]) /\ zresp[i].len < ReqLen(zreqs[i])

C33_ShortResponseIsTruncatedArchive ==
  (zpc = "done" /\ \E i \in {3, 4} \cap DOMAIN zresp : Short(i)) =>
      /\ zout.kind # "text"
      /\ zout = ErrorOf("TruncatedArchive")

\* C38: every range the reader asks for has 0 <= start <= end, whatever the
\* archive: also one of size 0, one with a central directory of size 0, one
\* with a member of compressed size 0.
C38_RangesWellFormed ==
  \A i \in DOMAIN zreqs : ValidRange(zreqs[i])

\* C34: for a text with a header line the CSV decoder gives one record per
\* non-blank line after the header; the keys of each record are the trimmed
\* header tokens; a column the line has no field for is the empty string;
\* fields beyond the header are ignored; a comma between two quote characters
\* does not separate fields.
NthOf(cuts, k, n) ==
  IF k = 0 THEN 0
  ELSE IF k > Cardinality(cuts) THEN n + 1
  ELSE CHOOSE x \in cuts : Cardinality({y \in cuts : y < x}) = k - 1

Piece(s, cuts, k) ==
  SubSeq(s, NthOf(cuts, k - 1, Len(s)) + 1, NthOf(cuts, k, Len(s)) - 1)

At(s, c) == {i \in DOMAIN s : s[i] = c}

Separators(line) ==
  {j \in At(line, ",") : Cardinality({i \in At(line, "\"") : i < j}) % 2 = 0}

LineOf(k) == Piece(ptext, At(ptext, "\n"), k)

Blank(line) == \A i \in DOMAIN line : line[i] = " "

DataLines == {k \in 2..(Cardinality(At(ptext, "\n")) + 1) : ~Blank(LineOf(k))}

HeaderToken(i) == Trim(Piece(Trim(LineOf(1)), At(Trim(LineOf(1)), ","), i))

HeaderCount == Cardinality(At(Trim(LineOf(1)), ",")) + 1

FieldOf(line, i) ==
  IF i > Cardinality(Separators(line)) + 1 THEN <<>>
  ELSE Trim(SelectSeq(Piece(line, Separators(line), i), LAMBDA c : c # "\""))

C34_CsvRecords ==
  ppc = "rows" =>
    /\ Len(prows) = Cardinality(DataLines)
    /\ \A n \in DOMAIN prows :
         LET line == Trim(LineOf(NthOf(DataLines, n, 0)))
         IN /\ DOMAIN prows[n] = {HeaderToken(i) : i \in 1..HeaderCount}
            /\ \A i \in 1..HeaderCount :
                 (\A j \in (i + 1)..HeaderCount : HeaderToken(j) # HeaderToken(i)) =>
                     prows[n][HeaderToken(i)] = FieldOf(line, i)

\* a record whose field holds a comma that stood between quotes
C34_Witness ==
  /\ ppc = "rows"
  /\ Len(prows) = 1
  /\ prows[1] = [k \in {<<"a">>} |-> <<",">>]
  /\ ptext = <<"a", "\n", "\"", ",", "\"">>

\* C35: in a price row mapped from a CSV record, on the ingest and on the
\* remote path, price is 0 when its text cannot be parsed, and each of
\* unit_price, best_price_30, anchor_price and special_price is null when its
\* text is empty or cannot be parsed, and a number otherwise.
Unparseable(t) ==
  ~(/\ t # <<>>
    /\ \/ t[1] \in Digits
       \/ t[1] = "." /\ Len(t) >= 2 /\ t[2] \in Digits)

C35_PriceCoercion ==
  ppc \in {"ingest", "remote"} =>
    \A i \in DOMAIN pmapped :
      /\ Unparseable(prows[i].price) => pmapped[i].price = Zero
      /\ \A f \in OptionalFields :
           IF Unparseable(prows[i][f])
           THEN pmapped[i][f] = Null
           ELSE pmapped[i][f].kind = "number"

\* C36: when no fetch fails, searchProductsEfficient returns the same result
\* as searchProducts on the archive extracted by fetchDayData: the groups a
\* call returns (key, product shown, prices attached) are those some run of
\* the other function returns for the same archive, query and city.
GroupSet(gs) ==
  {[key |-> gs[i].key, product |-> gs[i].product, prices |-> Range(gs[i].prices)] :
     i \in DOMAIN gs}

C36_TwoPhaseEqualsFull ==
  qpc = "returned" =>
    /\ via = "full" =>
         \E so \in CompletionOrders, eo \in CompletionOrders :
           GroupSet(found) = GroupSet(searchProductsEfficient(data, query, city, so, eo))
    /\ via = "efficient" =>
         \E so \in CompletionOrders, po \in CompletionOrders, eo \in CompletionOrders :
           GroupSet(found)
             = GroupSet(searchProducts(fetchDayData(data, so, po, eo), query, city))

\* C37: on the same stores, products and prices of a date, with at most 500
\* matching products, searchProductsFromDB and searchProducts return the same
\* groups with the same prices attached, for every query and city.
C37_CatalogEqualsInMemory ==
  qpc = "returned" =>
    /\ via = "db" => GroupSet(found) = GroupSet(searchProducts(data, query, city))
    /\ via = "mem" => GroupSet(found) = GroupSet(searchProductsFromDB(data, query, city))

\* C39: when a forced ingest of a date that has a 'success' log row aborts at
\* the size probe or at the directory fetch, before any row of the date was
\* deleted or inserted, the date stays queryable: its log row still says
\* 'success' and isDateIngested(date) is true.
C39_AbortedForceKeepsDateQueryable ==
  \A p \in Procs :
    (/\ pc[p] = "done" /\ force[p] /\ err[p] \in {"head", "dir"}
     /\ \E r \in pre[p].log : r.status = "success") =>
        /\ DateRows(date[p]) = pre[p].rows
        /\ "success" \in StatusOf(date[p])
        /\ IsDateIngested(date[p])

\* C40: a history request answers from the catalog, with source 'db' and no
\* HTTP request, whenever a date has a 'success' log row, and takes the remote
\* path, source 'zip', only when no date has one; on the catalog path the
\* dates considered are the min(days, number of success dates) most recent
\* success dates.
MostRecent(S, n) == {d \in S : Cardinality({e \in S : e > d}) < n}

C40_HistoryPath ==
  hpc \in {"called", "returned"} =>
    /\ SuccessDates # {} => hvia = "db" /\ hhttp = 0
    /\ hvia = "zip" => SuccessDates = {}
    /\ (hvia = "db" /\ hpc = "returned") =>
         LET considered == MostRecent(SuccessDates, Min(hargs.days, Cardinality(SuccessDates)))
         IN {hout[i].date : i \in DOMAIN hout}
              = {d \in considered : KeptInDB(hdata[d], hargs) # <<>>}

====
